---- MODULE Spec2Model ----
(***************************************************************************)
(* Verification model of the repository access layer of aemexplorer        *)
(* (core/repo.ts): saveJcrProperties and its processNode recursion,        *)
(* saveJcrFile, deleteJcrNode and moveJcrNode, running against a remote    *)
(* content tree reached through client.post / fetchJcrNode.                *)
(*                                                                         *)
(* Strings are TLA+ strings; a JavaScript value is a record                *)
(*   [t, s, e, n]  with t the runtime type, s the text of a scalar,        *)
(*   e the elements of an array and n the entries of an object.            *)
(* An object (property tree) is a sequence of entries [k, v] in key        *)
(* insertion order.                                                        *)
(***************************************************************************)
EXTENDS Integers, Sequences, FiniteSets, TLC

VARIABLES
    call,       \* the operation invoked and its arguments
    returned,   \* the value a synchronous function returned
    remote,     \* the remote node at jcrPath (a value, t = "none" when absent)
    client,     \* the FetchClient: its authorization header for the host, a pending prompt
    remote0,    \* the remote node when the operation was invoked
    stack,      \* processNode activations, innermost last
    inflight,   \* deleteJcrNode requests of Promise.all still in flight
    changes,    \* length of the changes array of saveJcrProperties
    status,     \* "running", "done" (promise resolved), "failed" (rejected)
    thrown,     \* class of the error the promise rejected with
    messages,   \* lines written to the output channel by writeMessage
    trace       \* requests sent and responses received, in order

vars == <<call, returned, client, remote, remote0, stack, inflight, changes, status, thrown, messages, trace>>

-----------------------------------------------------------------------------
(* Bounds of the checked instances *)

MaxArrayLen == 2
MaxChildren == 2

\* the longest text given to the value codec
MaxTextLen == 2

\* the longest path given to the path escaping
MaxPathLen == 4

\* the greatest depth asked of the repository, and the greatest it serves by default
MaxDepth == 2

\* the greatest number of fetches under way at once on one host
MaxFetches == 2

-----------------------------------------------------------------------------
(* JavaScript values *)

Undefined == [t |-> "none", s |-> "", e |-> <<>>, n |-> <<>>]
Str(x) == [t |-> "string", s |-> x, e |-> <<>>, n |-> <<>>]
Num(x) == [t |-> "number", s |-> x, e |-> <<>>, n |-> <<>>]
Bool(x) == [t |-> "boolean", s |-> x, e |-> <<>>, n |-> <<>>]
Arr(q) == [t |-> "array", s |-> "", e |-> q, n |-> <<>>]
Obj(tr) == [t |-> "node", s |-> "", e |-> <<>>, n |-> tr]

Entry(k, v) == [k |-> k, v |-> v]

Keys(tr) == [i \in 1..Len(tr) |-> tr[i].k]

KeySet(tr) == {tr[i].k : i \in 1..Len(tr)}

Has(tr, k) == k \in KeySet(tr)

\* data[k]: undefined when the key is absent
Get(tr, k) ==
    IF Has(tr, k) THEN tr[CHOOSE i \in 1..Len(tr) : tr[i].k = k].v ELSE Undefined

\* data[k] = v: an existing key keeps its position, a new key is appended
Put(tr, k, v) ==
    IF Has(tr, k)
    THEN [i \in 1..Len(tr) |-> IF tr[i].k = k THEN Entry(k, v) ELSE tr[i]]
    ELSE Append(tr, Entry(k, v))

RECURSIVE Del(_, _)
\* delete data[k]
Del(tr, k) ==
    IF tr = <<>> THEN <<>>
    ELSE IF Head(tr).k = k THEN Del(Tail(tr), k)
    ELSE <<Head(tr)>> \o Del(Tail(tr), k)

RECURSIVE DelAll(_, _)
\* names.forEach(v => delete data[v])
DelAll(tr, names) ==
    IF names = <<>> THEN tr ELSE DelAll(Del(tr, Head(names)), Tail(names))

\* the characters a model string is made of
Alphabet == {"a", "b", "1", ".", ",", "-"}

RECURSIVE Concat(_)
\* q.join('')
Concat(q) == IF q = <<>> THEN "" ELSE Head(q) \o Concat(Tail(q))

\* a string as the sequence of its characters
CharsOf(x) == CHOOSE q \in [1..Len(x) -> Alphabet] : Concat(q) = x

\* JavaScript truthiness
Truthy(v) ==
    CASE v.t = "none" -> FALSE
      [] v.t = "string" -> v.s # ""
      [] v.t = "number" -> v.s # "0"
      [] v.t = "boolean" -> v.s = "true"
      [] OTHER -> TRUE

-----------------------------------------------------------------------------
(* Names used by core/repo.ts *)

jcrPrimaryType == "jcr:primaryType"

internalProps ==
    << "jcr:created", "jcr:createdBy", "jcr:lastModified", "jcr:lastModifiedBy",
       "cq:lastModified", "cq:lastModifiedBy", "cq:lastReplicated",
       "cq:lastReplicatedBy", "cq:lastReplicationAction" >>

\* property and child names of the checked instances
BaseNames ==
    {jcrPrimaryType, "title", "tags", "note", "a", "b", "c", "g"}
        \cup {internalProps[i] : i \in 1..Len(internalProps)}

\* i[0] === ':'
IsMeta(k) == k \in {":" \o b : b \in BaseNames}

isChildNode(data, i) == Get(data, i).t = "node"

-----------------------------------------------------------------------------
(* Value typing and formatting *)

VALUE_TYPE ==
    [string |-> "String", boolean |-> "Boolean", long |-> "Long",
     double |-> "Double", date |-> "Date"]

\* Math.floor(value) - value === 0, on the decimal text of the number
IsWhole(x) == \A i \in 1..Len(x) : CharsOf(x)[i] # "."

\* type && type + '[]'
ArrayTypeOf(type) == IF type = "" THEN "" ELSE type \o "[]"

RECURSIVE getJcrValueType(_)
getJcrValueType(value) ==
    CASE value.t = "string" -> VALUE_TYPE.string
      [] value.t = "boolean" -> VALUE_TYPE.boolean
      [] value.t = "number" ->
            IF IsWhole(value.s) THEN VALUE_TYPE.long ELSE VALUE_TYPE.double
      [] value.t = "date" -> VALUE_TYPE.date
      [] value.t = "array" ->
            ArrayTypeOf(getJcrValueType(IF value.e = <<>> THEN Undefined ELSE value.e[1]))
      [] OTHER -> ""

RECURSIVE JoinComma(_)
\* Array.prototype.join(','), the elements being scalars
JoinComma(q) ==
    IF q = <<>> THEN ""
    ELSE IF Len(q) = 1 THEN q[1].s
    ELSE q[1].s \o "," \o JoinComma(Tail(q))

\* String(value)
JsString(value) ==
    CASE value.t = "none" -> "undefined"
      [] value.t = "array" -> JoinComma(value.e)
      [] value.t = "node" -> "[object Object]"
      [] OTHER -> value.s

\* a Date is carried as the text toISOString() gives
formatJcrValue(value) ==
    IF getJcrValueType(value) = VALUE_TYPE.date THEN value.s ELSE JsString(value)

-----------------------------------------------------------------------------
(* processNode: the mutation computed between the fetch and the write *)

Field(name, value) == [name |-> name, value |-> value]

NoFields == [form |-> <<>>, childProps |-> <<>>, error |-> FALSE]

\* currentData[i]?.length, -1 standing for undefined
LengthOf(v) ==
    CASE v.t = "array" -> Len(v.e)
      [] v.t = "string" -> Len(v.s)
      [] OTHER -> -1

\* currentData[i][j - 1]
ElementAt(v, j) == IF v.t = "array" THEN v.e[j] ELSE Str(CharsOf(v.s)[j])

\* a === b on scalars
StrictEquals(a, b) == a.t = b.t /\ a.s = b.s

\* value.length === currentData[i]?.length && value.every((v, j) => v === currentData[i][j])
ArrayUnchanged(value, cur) ==
    /\ Len(value.e) = LengthOf(cur)
    /\ \A j \in 1..Len(value.e) : StrictEquals(value.e[j], ElementAt(cur, j))

\* a comparison that never finds a scalar unchanged
ScalarNeverUnchanged(value, cur) == FALSE

\* value === formatJcrValue(currentData[i]), value being the formatted desired scalar
ScalarUnchanged(value, cur) == formatJcrValue(value) = formatJcrValue(cur)

\* paired || inferred
HintOr(paired, inferred) == IF Truthy(paired) THEN JsString(paired) ELSE inferred

\* properties[':' + i] || getJcrValueType(value)
TypeHintOf(properties, i, value) ==
    HintOr(Get(properties, ":" \o i), getJcrValueType(value))

\* if (typeHint) formData.append(i + '@TypeHint', typeHint)
AppendHint(fields, i, typeHint) ==
    IF typeHint # "" THEN Append(fields, Field(i \o "@TypeHint", typeHint)) ELSE fields

WithTypeHint(fields, properties, i, value) ==
    AppendHint(fields, i, TypeHintOf(properties, i, value))

\* the existing elements sent as plain values, without '@Patch' and without '-'
PatchAsReplace(i, cur) ==
    [j \in 1..Len(cur.e) |-> Field(i, formatJcrValue(cur.e[j]))]

\* the removal patch of an array emptied by the desired tree
PatchFields(i, cur) ==
    <<Field(i \o "@Patch", "true")>> \o
        [j \in 1..Len(cur.e) |-> Field(i, "-" \o formatJcrValue(cur.e[j]))]

\* the full replacement of an array
ReplaceFields(i, value) ==
    [j \in 1..Len(value.e) |-> Field(i, formatJcrValue(value.e[j]))]

\* one turn of the loop over the desired keys: value = properties[i],
\* cur = currentData[i], i not ':'-prefixed
FieldsOf(properties, i, value, cur) ==
    IF value.t = "array" THEN
        IF ArrayUnchanged(value, cur) THEN NoFields
        ELSE IF value.e = <<>> /\ LengthOf(cur) > 0 THEN
            \* currentData[i].forEach exists on arrays only
            IF cur.t # "array" THEN [NoFields EXCEPT !.error = TRUE]
            ELSE [NoFields EXCEPT
                    !.form = WithTypeHint(PatchFields(i, cur), properties, i, value)]
        ELSE [NoFields EXCEPT
                !.form = WithTypeHint(ReplaceFields(i, value), properties, i, value)]
    ELSE IF getJcrValueType(value) = "" THEN
        [NoFields EXCEPT !.childProps = <<Entry(i, value)>>,
                         !.form = WithTypeHint(<<>>, properties, i, value)]
    ELSE IF ScalarUnchanged(value, cur) THEN NoFields
    ELSE [NoFields EXCEPT !.form =
            WithTypeHint(<<Field(i, formatJcrValue(value))>>, properties, i,
                         Str(formatJcrValue(value)))]

\* every desired property written, whatever the fetched node holds
PropertyFieldsOfAll(properties, currentData, i) ==
    IF IsMeta(i) THEN NoFields
    ELSE FieldsOf(properties, i, Get(properties, i), Undefined)

PropertyFields(properties, currentData, i) ==
    IF IsMeta(i) THEN NoFields
    ELSE FieldsOf(properties, i, Get(properties, i), Get(currentData, i))

Merge(one, rest) ==
    [form |-> one.form \o rest.form,
     childProps |-> one.childProps \o rest.childProps,
     error |-> rest.error]

RECURSIVE PropertyLoop(_, _, _)

\* a turn that throws ends the loop
LoopFrom(one, properties, currentData, j) ==
    IF one.error THEN one ELSE Merge(one, PropertyLoop(properties, currentData, j + 1))

\* for (let i in properties), from the j-th key on
PropertyLoop(properties, currentData, j) ==
    IF j > Len(properties) THEN NoFields
    ELSE LoopFrom(PropertyFields(properties, currentData, properties[j].k),
                  properties, currentData, j)

\* a gate that does not read options.deleteProps
DeleteGateOpen(options, properties) == Truthy(Get(properties, jcrPrimaryType))

\* a gate that does not read the primary type of the desired tree
DeleteGateUntyped(options, properties) == options.deleteProps

\* properties absent from the desired tree are deleted only under deleteProps
DeleteGate(options, properties) ==
    options.deleteProps /\ Truthy(Get(properties, jcrPrimaryType))

\* a gate that does not read options.deleteChildren
ChildDeleteGateOpen(options) == TRUE

\* child nodes absent from the desired tree are deleted only under deleteChildren
ChildDeleteGate(options) == options.deleteChildren

\* String(order)
Numeral(n) == CASE n = 0 -> "0" [] n = 1 -> "1" [] n = 2 -> "2" [] n = 3 -> "3" [] OTHER -> "9"

\* some current child that is also desired sits at another index than in keys
Displaced(present, keys) == \E i \in 1..Len(present) : keys[i] # present[i]

\* a level that always finds its children displaced
NeedsReorderAlways(currentData, childProps) == TRUE

\* Object.keys(currentData).filter(v => childProps[v]).some((v, i) => keys[i] !== v)
NeedsReorder(currentData, childProps) ==
    Displaced(SelectSeq(Keys(currentData), LAMBDA v : Truthy(Get(childProps, v))),
              Keys(childProps))

\* the keys of currentData that the desired tree does not have
Missing(currentData, kept) == SelectSeq(currentData, LAMBDA en : ~Has(kept, en.k))

\* properties[i] = currentData[i] for the missing ':'-prefixed keys
WithMeta(kept, missing) == kept \o SelectSeq(missing, LAMBDA en : IsMeta(en.k))

ChildrenToDelete(missing, options) ==
    IF ChildDeleteGate(options)
    THEN Keys(SelectSeq(missing, LAMBDA en : ~IsMeta(en.k) /\ isChildNode(missing, en.k)))
    ELSE <<>>

DeleteFieldsOf(plain) == [j \in 1..Len(plain) |-> Field(plain[j].k \o "@Delete", "")]

DeleteFields(missing, options, properties) ==
    IF DeleteGate(options, properties)
    THEN DeleteFieldsOf(SelectSeq(missing,
            LAMBDA en : ~IsMeta(en.k) /\ ~isChildNode(missing, en.k)))
    ELSE <<>>

\* if (order !== false) formData.append(':order', String(order)), -1 being false
OrderField(order) == IF order # -1 THEN <<Field(":order", Numeral(order))>> ELSE <<>>

Mutation(deleteFields, loop, childrenToDelete, currentData, order) ==
    [form |-> deleteFields \o loop.form \o OrderField(order),
     childProps |-> loop.childProps,
     childrenToDelete |-> childrenToDelete,
     reorder |-> NeedsReorder(currentData, loop.childProps),
     error |-> loop.error]

MutationWith(currentData, missing, properties, order, options) ==
    Mutation(DeleteFields(missing, options, properties),
             PropertyLoop(properties, currentData, 1),
             ChildrenToDelete(missing, options), currentData, order)

MutationOver(currentData, missing, kept, order, options) ==
    MutationWith(currentData, missing, WithMeta(kept, missing), order, options)

MutationOf(currentData, kept, order, options) ==
    MutationOver(currentData, Missing(currentData, kept), kept, order, options)

\* the mutation computed on the trees as they are, no property being ignored
ComputeMutationOfAll(fetched, desired, order, options) ==
    MutationOf(fetched, desired, order, options)

\* The synchronous part of processNode after the fetch: the ignored properties
\* leave both trees, then the form data, the child trees and the children to
\* delete are computed; error tells that the computation threw.
ComputeMutation(fetched, desired, order, options) ==
    MutationOf(DelAll(fetched, internalProps \o options.ignoreProps),
               DelAll(desired, internalProps \o options.ignoreProps),
               order, options)

-----------------------------------------------------------------------------
(* The remote repository behind the transport *)

\* the entries of a node, none for what is not a node
Children(root) == IF root.t = "node" THEN root.n ELSE <<>>

\* paths are relative to jcrPath: the sequence of child names below it
RECURSIVE NodeAt(_, _)
NodeAt(root, path) ==
    IF root.t # "node" THEN Undefined
    ELSE IF path = <<>> THEN root
    ELSE NodeAt(Get(root.n, Head(path)), Tail(path))

\* a node lists its properties first, then its child nodes in their order
Normalize(tree) ==
    SelectSeq(tree, LAMBDA en : en.v.t # "node") \o
        SelectSeq(tree, LAMBDA en : en.v.t = "node")

RECURSIVE WithNodeAt(_, _, _)
\* the tree with the node at path replaced, missing ancestors being created
WithNodeAt(root, path, node) ==
    IF path = <<>> THEN node
    ELSE Obj(Normalize(Put(Children(root), Head(path),
                WithNodeAt(Get(Children(root), Head(path)), Tail(path), node))))

RECURSIVE WithoutNodeAt(_, _)
WithoutNodeAt(root, path) ==
    IF path = <<>> THEN Undefined
    ELSE IF root.t # "node" THEN root
    ELSE IF Len(path) = 1 THEN Obj(Del(root.n, path[1]))
    ELSE IF ~Has(root.n, Head(path)) THEN root
    ELSE Obj(Put(root.n, Head(path),
                 WithoutNodeAt(Get(root.n, Head(path)), Tail(path))))

\* the JSON of a node at depth 0: its properties, and its children as empty objects
DepthZeroJson(node) ==
    [i \in 1..Len(node.n) |->
        IF node.n[i].v.t = "node" THEN Entry(node.n[i].k, Obj(<<>>)) ELSE node.n[i]]

ValuesOf(hit) == [j \in 1..Len(hit) |-> hit[j].value]

FieldValues(form, name) == ValuesOf(SelectSeq(form, LAMBDA f : f.name = name))

HasField(form, name) == \E j \in 1..Len(form) : form[j].name = name

HintBases == {"String", "Boolean", "Long", "Double", "Date"}

IsMultiHint(h) == h \in {b \o "[]" : b \in HintBases}

BaseOfHint(h) == IF IsMultiHint(h) THEN CHOOSE b \in HintBases : h = b \o "[]" ELSE h

\* the value the repository stores for a posted text under a type hint
ParseTyped(text, type) ==
    CASE type \in {"Long", "Double"} -> Num(text)
      [] type = "Boolean" -> Bool(text)
      [] type = "Date" -> [t |-> "date", s |-> text, e |-> <<>>, n |-> <<>>]
      [] OTHER -> Str(text)

\* the property name a form field addresses, "" for a control field
BaseOfField(name) ==
    IF \E b \in BaseNames : name \in {b, b \o "@Delete", b \o "@Patch", b \o "@TypeHint"}
    THEN CHOOSE b \in BaseNames :
            name \in {b, b \o "@Delete", b \o "@Patch", b \o "@TypeHint"}
    ELSE ""

\* the type hint a form carries for property k, "" when it carries none
HintIn(form, k) ==
    IF HasField(form, k \o "@TypeHint") THEN FieldValues(form, k \o "@TypeHint")[1] ELSE ""

\* the elements left by a patch whose values are removals
Patched(existing, vals) ==
    Arr(SelectSeq(existing.e,
            LAMBDA el : \A j \in 1..Len(vals) : vals[j] # "-" \o JsString(el)))

\* the values vals posted for property k, under a hint, as a patch or not
Written(cleared, k, vals, hint, patch) ==
    IF vals = <<>> THEN cleared
    ELSE IF patch THEN
        IF Get(cleared, k).t # "array" THEN cleared
        ELSE Put(cleared, k, Patched(Get(cleared, k), vals))
    ELSE IF IsMultiHint(hint) \/ Len(vals) > 1 THEN
        Put(cleared, k, Arr([j \in 1..Len(vals) |-> ParseTyped(vals[j], BaseOfHint(hint))]))
    ELSE Put(cleared, k, ParseTyped(vals[1], hint))

\* the operations of one form on property k of a node
ApplyName(tree, form, k) ==
    Written(IF HasField(form, k \o "@Delete") THEN Del(tree, k) ELSE tree,
            k, FieldValues(form, k), HintIn(form, k),
            FieldValues(form, k \o "@Patch") = <<"true">>)

\* field j is the first field of the form that addresses property k
ApplyField(tree, form, j, k) ==
    IF k # "" /\ \A h \in 1..(j - 1) : BaseOfField(form[h].name) # k
    THEN ApplyName(tree, form, k) ELSE tree

RECURSIVE ApplyForm(_, _, _)
\* the fields of a form applied to the properties of a node, from field j on
ApplyForm(tree, form, j) ==
    IF j > Len(form) THEN tree
    ELSE ApplyForm(ApplyField(tree, form, j, BaseOfField(form[j].name)), form, j + 1)

PlacedAt(props, others, entry, at) ==
    props \o SubSeq(others, 1, at) \o <<entry>> \o SubSeq(others, at + 1, Len(others))

Placed(props, others, entry, index) ==
    PlacedAt(props, others, entry, IF index > Len(others) THEN Len(others) ELSE index)

\* ':order': the node takes the given index among the child nodes of its parent
Reordered(tree, name, index) ==
    Placed(SelectSeq(tree, LAMBDA en : en.v.t # "node"),
           SelectSeq(tree, LAMBDA en : en.v.t = "node" /\ en.k # name),
           Entry(name, Get(tree, name)), index)

OrderIndex(text) == CASE text = "0" -> 0 [] text = "1" -> 1 [] text = "2" -> 2 [] OTHER -> 3

Moved(written, parentPath, name, index) ==
    WithNodeAt(written, parentPath,
               Obj(Reordered(NodeAt(written, parentPath).n, name, index)))

Ordered(written, path, form) ==
    IF HasField(form, ":order") /\ path # <<>>
    THEN Moved(written, SubSeq(path, 1, Len(path) - 1), path[Len(path)],
               OrderIndex(FieldValues(form, ":order")[1]))
    ELSE written

\* the repository after a POST of form to path: the node is created when absent
ServerPost(root, path, form) ==
    Ordered(WithNodeAt(root, path,
                Obj(Normalize(ApplyForm(Children(NodeAt(root, path)), form, 1)))),
            path, form)

\* the number of entries of the changes list of the response
ServerChanges(root, path, form) ==
    Cardinality({BaseOfField(form[j].name) : j \in 1..Len(form)} \ {""})
        + (IF NodeAt(root, path).t = "node" THEN 0 ELSE 1)
        + (IF HasField(form, ":order") THEN 1 ELSE 0)

-----------------------------------------------------------------------------
(* processNode activations and the trace of requests *)

EmptyMutation ==
    [form |-> <<>>, childProps |-> <<>>, childrenToDelete |-> <<>>,
     reorder |-> FALSE, error |-> FALSE]

\* an activation of processNode(jcrPath, properties, order), suspended at its fetch
Frame(path, properties, order) ==
    [path |-> path, properties |-> properties, order |-> order, pc |-> "fetch",
     mut |-> EmptyMutation, idx |-> 0]

\* a request sent (dir = "req") or a response received (dir = "res")
Event(dir, kind, path, form, result) ==
    [dir |-> dir, kind |-> kind, path |-> path, form |-> form, result |-> result,
     cur |-> <<>>, des |-> <<>>]

Top(stk) == stk[Len(stk)]

Pop(stk) == SubSeq(stk, 1, Len(stk) - 1)

SetTop(stk, frame) == [stk EXCEPT ![Len(stk)] = frame]

\* what a synchronous run of the code leaves behind: the stack, the requests
\* it sent, the deletes it started, and how it ended ("await", "return", "throw")
Outcome(stk, sent, started, how) ==
    [stack |-> stk, sent |-> sent, started |-> started, how |-> how]

\* a child order that is always false
NoChildOrder(reorder, idx) == -1

\* reorder && i, -1 being false
ChildOrder(reorder, idx) == IF reorder THEN idx - 1 ELSE -1

\* the fetch of the next child sent together with that of child idx
EnterChildAtOnce(stk, top, idx, path) ==
    Outcome(Append(SetTop(stk, [top EXCEPT !.pc = "children", !.idx = idx]),
                   Frame(path, top.mut.childProps[idx].v.n,
                         ChildOrder(top.mut.reorder, idx))),
            <<Event("req", "fetch", path, <<>>, "")>> \o
                (IF idx < Len(top.mut.childProps)
                 THEN <<Event("req", "fetch",
                              Append(top.path, top.mut.childProps[idx + 1].k), <<>>, "")>>
                 ELSE <<>>),
            {}, "await")

EnterChildAt(stk, top, idx, path) ==
    Outcome(Append(SetTop(stk, [top EXCEPT !.pc = "children", !.idx = idx]),
                   Frame(path, top.mut.childProps[idx].v.n,
                         ChildOrder(top.mut.reorder, idx))),
            <<Event("req", "fetch", path, <<>>, "")>>, {}, "await")

\* the loop over the child trees calls processNode for child idx
EnterChild(stk, idx) ==
    EnterChildAt(stk, Top(stk), idx,
                 Append(Top(stk).path, Top(stk).mut.childProps[idx].k))

RECURSIVE ReturnTo(_)
\* the caller goes on with its next child, or returns in its turn
ReturnTo(rest) ==
    IF rest = <<>> THEN Outcome(<<>>, <<>>, {}, "return")
    ELSE IF Top(rest).idx < Len(Top(rest).mut.childProps)
    THEN EnterChild(rest, Top(rest).idx + 1)
    ELSE ReturnTo(Pop(rest))

\* the innermost processNode returns
ReturnFrom(stk) == ReturnTo(Pop(stk))

\* after the deletes of this level: recurse into the child trees, in key order
AfterDeletes(stk) ==
    IF Top(stk).mut.childProps # <<>> THEN EnterChild(stk, 1) ELSE ReturnFrom(stk)

\* the deletes sent and the first child tree entered without awaiting them
StartDeletesAndRecurse(stk, top, paths) ==
    IF top.mut.childProps = <<>>
    THEN Outcome(SetTop(stk, [top EXCEPT !.pc = "deletes"]),
                 [j \in 1..Len(paths) |-> Event("req", "delete", paths[j], <<>>, "")],
                 {paths[j] : j \in 1..Len(paths)}, "await")
    ELSE Outcome(EnterChild(stk, 1).stack,
                 [j \in 1..Len(paths) |-> Event("req", "delete", paths[j], <<>>, "")]
                    \o EnterChild(stk, 1).sent,
                 {paths[j] : j \in 1..Len(paths)}, "await")

StartDeletes(stk, top, paths) ==
    Outcome(SetTop(stk, [top EXCEPT !.pc = "deletes"]),
            [j \in 1..Len(paths) |-> Event("req", "delete", paths[j], <<>>, "")],
            {paths[j] : j \in 1..Len(paths)}, "await")

\* after the write of this level: Promise.all over deleteJcrNode of each child
AfterPost(stk) ==
    IF Top(stk).mut.childrenToDelete # <<>>
    THEN StartDeletes(stk, Top(stk),
            [j \in 1..Len(Top(stk).mut.childrenToDelete) |->
                Append(Top(stk).path, Top(stk).mut.childrenToDelete[j])])
    ELSE AfterDeletes(stk)

\* the write of a level sent whatever its form holds
WithMutationPosted(stk, top, currentData, mut) ==
    IF mut.error THEN Outcome(SetTop(stk, [top EXCEPT !.mut = mut]), <<>>, {}, "throw")
    ELSE Outcome(SetTop(stk, [top EXCEPT !.mut = mut, !.pc = "post"]),
                 <<[Event("req", "post", top.path, mut.form, "") EXCEPT
                        !.cur = currentData, !.des = top.properties]>>,
                 {}, "await")

WithMutation(stk, top, currentData, mut) ==
    IF mut.error THEN Outcome(SetTop(stk, [top EXCEPT !.mut = mut]), <<>>, {}, "throw")
    ELSE IF mut.form # <<>>
    THEN Outcome(SetTop(stk, [top EXCEPT !.mut = mut, !.pc = "post"]),
                 <<[Event("req", "post", top.path, mut.form, "") EXCEPT
                        !.cur = currentData, !.des = top.properties]>>,
                 {}, "await")
    ELSE AfterPost(SetTop(stk, [top EXCEPT !.mut = mut]))

\* after the fetch of this level, currentData being the fetched tree
AfterFetch(stk, currentData, options) ==
    WithMutation(stk, Top(stk), currentData,
                 ComputeMutation(currentData, Top(stk).properties, Top(stk).order, options))

-----------------------------------------------------------------------------
(* The value codec: serializeJcrValue, parseJcrValue, unserializeJcrValue.   *)
(* Here a string is the sequence of its characters (a text), so that the    *)
(* replacements and the matching of the code can be followed character by   *)
(* character. The ISO text of a date and the name of a value type stand as  *)
(* one element of a text each, no step of the codec looking inside them.    *)

\* a string, a boolean, a number (-1)^neg * m / 10^k, a date, an array
CStr(text) == [t |-> "string", c |-> text]
CBool(b) == [t |-> "boolean", b |-> b]
CNum(neg, m, k) == [t |-> "number", neg |-> neg, m |-> m, k |-> k]
CDate(text) == [t |-> "date", c |-> text]
CArr(q) == [t |-> "array", e |-> q]
CUndefined == [t |-> "none"]

\* NaN, which has no decimal places
NotANumber == [t |-> "number", neg |-> FALSE, m |-> 0, k |-> -1]

DigitChars == <<"0", "1", "2", "3", "4", "5", "6", "7", "8", "9">>

IsDigit(c) == \E d \in 1..Len(DigitChars) : DigitChars[d] = c

DigitValue(c) == (CHOOSE d \in 1..Len(DigitChars) : DigitChars[d] = c) - 1

RECURSIVE NatText(_)
\* String(n) for a natural number
NatText(n) ==
    IF n < Len(DigitChars) THEN <<DigitChars[n + 1]>>
    ELSE NatText(n \div Len(DigitChars)) \o <<DigitChars[(n % Len(DigitChars)) + 1]>>

RECURSIVE NatOf(_)
\* the natural number a sequence of digits denotes
NatOf(q) ==
    IF q = <<>> THEN 0
    ELSE NatOf(SubSeq(q, 1, Len(q) - 1)) * Len(DigitChars) + DigitValue(q[Len(q)])

RECURSIVE PowerOfTen(_)
PowerOfTen(k) == IF k = 0 THEN 1 ELSE Len(DigitChars) * PowerOfTen(k - 1)

RECURSIVE FractionText(_, _)
\* the k digits after the decimal point
FractionText(f, k) ==
    IF k = 0 THEN <<>>
    ELSE FractionText(f \div Len(DigitChars), k - 1)
            \o <<DigitChars[(f % Len(DigitChars)) + 1]>>

\* String(x) of a number in the range where JavaScript prints plain decimals
NumberText(x) ==
    IF x.k < 0 THEN <<"N", "a", "N">>
    ELSE (IF x.neg THEN <<"-">> ELSE <<>>)
            \o NatText(x.m \div PowerOfTen(x.k))
            \o (IF x.k > 0
                THEN <<".">> \o FractionText(x.m % PowerOfTen(x.k), x.k)
                ELSE <<>>)

TrueText == <<"t", "r", "u", "e">>

FalseText == <<"f", "a", "l", "s", "e">>

RECURSIVE JoinTexts(_)
\* join(',')
JoinTexts(q) ==
    IF q = <<>> THEN <<>>
    ELSE IF Len(q) = 1 THEN q[1]
    ELSE q[1] \o <<",">> \o JoinTexts(Tail(q))

RECURSIVE TextTypeOf(_)
\* getJcrValueType, on the values of the codec
TextTypeOf(value) ==
    CASE value.t = "string" -> VALUE_TYPE.string
      [] value.t = "boolean" -> VALUE_TYPE.boolean
      [] value.t = "number" -> IF value.k = 0 THEN VALUE_TYPE.long ELSE VALUE_TYPE.double
      [] value.t = "date" -> VALUE_TYPE.date
      [] value.t = "array" ->
            ArrayTypeOf(TextTypeOf(IF value.e = <<>> THEN CUndefined ELSE value.e[1]))
      [] OTHER -> ""

RECURSIVE formatJcrText(_)
\* formatJcrValue, on the values of the codec: toISOString() of a date, String(value) else
formatJcrText(value) ==
    CASE value.t = "string" -> value.c
      [] value.t = "date" -> value.c
      [] value.t = "boolean" -> IF value.b THEN TrueText ELSE FalseText
      [] value.t = "number" -> NumberText(value)
      [] value.t = "array" ->
            JoinTexts([j \in 1..Len(value.e) |-> formatJcrText(value.e[j])])
      [] OTHER -> <<"u", "n", "d", "e", "f", "i", "n", "e", "d">>

\* replace(/^[\[{]/, '\\$1'): the pattern has no group, so '$1' stays as written
EscapeHead(text) ==
    IF text # <<>> /\ text[1] \in {"[", "{"}
    THEN <<"\\", "$", "1">> \o Tail(text)
    ELSE text

RECURSIVE EscapeCommas(_)
\* replace(/,/g, '\\,')
EscapeCommas(text) ==
    IF text = <<>> THEN <<>>
    ELSE (IF Head(text) = "," THEN <<"\\", ",">> ELSE <<Head(text)>>)
            \o EscapeCommas(Tail(text))

serializeJcrValue(value) ==
    IF value.t # "array" THEN EscapeHead(formatJcrText(value))
    ELSE IF Len(value.e) = 1 /\ value.e[1] = CStr(<<>>) THEN <<"[", "\\", "0", "]">>
    ELSE <<"[">>
            \o JoinTexts([j \in 1..Len(value.e) |-> EscapeCommas(formatJcrText(value.e[j]))])
            \o <<"]">>

HexDigits ==
    {DigitChars[d] : d \in 1..Len(DigitChars)}
        \cup {"a", "b", "c", "d", "e", "f", "A", "B", "C", "D", "E", "F"}

\* \w, and the words that stand as one element of a text
WordChars ==
    {DigitChars[d] : d \in 1..Len(DigitChars)}
        \cup {"_", "a", "b", "c", "d", "e", "f", "l", "r", "s", "t", "u", "x", "A", "B",
              "C", "D", "E", "F"}
        \cup {VALUE_TYPE.string, VALUE_TYPE.boolean, VALUE_TYPE.long,
              VALUE_TYPE.double, VALUE_TYPE.date}
        \cup {"jcr", "nt", "cq", "sling", "primaryType", "unstructured", "created",
              "title", "tags", "xmlns", "root", "content"}

\* '\uXXXX' at the head of the text
IsUnicodeEscape(text) ==
    /\ Len(text) >= 6
    /\ text[2] \in {"u", "U"}
    /\ \A j \in 3..6 : text[j] \in HexDigits

RECURSIVE Unescape(_)
\* replace(/\\(u([0-9a-f]{4})|[,\\\[\{])/gi, v => v[2] ? fromCodePoint(parseInt(v[2], 16)) : v[1]):
\* v is the matched text, so v[1] is the character after the backslash and v[2]
\* the first character after that
Unescape(text) ==
    IF text = <<>> THEN <<>>
    ELSE IF Head(text) = "\\" /\ IsUnicodeEscape(text)
    THEN <<"U+" \o text[3]>> \o Unescape(SubSeq(text, 7, Len(text)))
    ELSE IF Head(text) = "\\" /\ Len(text) >= 2 /\ text[2] \in {",", "\\", "[", "{"}
    THEN <<text[2]>> \o Unescape(SubSeq(text, 3, Len(text)))
    ELSE <<Head(text)>> \o Unescape(Tail(text))

\* the ISO text of the date of the scenarios
IsoDate == "2020-01-02T03:04:05.000Z"

\* the test of the date pattern
IsIsoDate(text) == text = <<IsoDate>>

\* new Date(value)
ParseDate(text) == IF IsIsoDate(text) THEN CDate(text) ELSE CDate(<<"Invalid Date">>)

RECURSIVE Trim(_)
\* the white space the conversion to a number drops
Trim(text) ==
    IF text # <<>> /\ Head(text) = " " THEN Trim(Tail(text))
    ELSE IF text # <<>> /\ text[Len(text)] = " " THEN Trim(SubSeq(text, 1, Len(text) - 1))
    ELSE text

Unsigned(text) ==
    IF text # <<>> /\ Head(text) \in {"-", "+"} THEN Tail(text) ELSE text

\* a decimal literal without sign: digits with at most one point, one digit at least
IsDecimal(body) ==
    /\ \A j \in 1..Len(body) : IsDigit(body[j]) \/ body[j] = "."
    /\ \E j \in 1..Len(body) : IsDigit(body[j])
    /\ Cardinality({j \in 1..Len(body) : body[j] = "."}) <= 1

\* the number of digits after the point
Decimals(body) ==
    IF \E j \in 1..Len(body) : body[j] = "."
    THEN Len(body) - (CHOOSE j \in 1..Len(body) : body[j] = ".")
    ELSE 0

RECURSIVE Normal(_, _, _)
\* a number without trailing zero decimals; -0 === 0
Normal(neg, m, k) ==
    IF k > 0 /\ m % Len(DigitChars) = 0 THEN Normal(neg, m \div Len(DigitChars), k - 1)
    ELSE CNum(neg /\ m # 0, m, k)

NumberOfTrimmed(text) ==
    IF text = <<>> THEN CNum(FALSE, 0, 0)
    ELSE IF ~IsDecimal(Unsigned(text)) THEN NotANumber
    ELSE Normal(Head(text) = "-", NatOf(SelectSeq(text, IsDigit)), Decimals(Unsigned(text)))

\* +value, for texts without exponent, radix prefix or Infinity
ToNumber(text) == NumberOfTrimmed(Trim(text))

\* the type parseJcrValue infers when no hint is given
InferredHint(value) ==
    IF value = TrueText \/ value = FalseText THEN VALUE_TYPE.boolean
    ELSE IF IsIsoDate(value) THEN VALUE_TYPE.date
    ELSE IF value # <<>> /\ ToNumber(value).k >= 0 THEN VALUE_TYPE.double
    ELSE ""

\* the switch over the hint, and the test for '\0'
ParseAs(value, typeHint) ==
    CASE typeHint = VALUE_TYPE.boolean -> CBool(value = TrueText)
      [] typeHint = VALUE_TYPE.date -> ParseDate(value)
      [] typeHint \in {VALUE_TYPE.double, VALUE_TYPE.long} -> ToNumber(value)
      [] OTHER -> IF value = <<"\\", "0">> THEN CStr(<<>>) ELSE CStr(value)

ParseUnescaped(value, typeHint) ==
    ParseAs(value, IF typeHint = "" THEN InferredHint(value) ELSE typeHint)

parseJcrValue(value, typeHint) == ParseUnescaped(Unescape(value), typeHint)

\* the end of the match of /^\{(\w+)\}/, 0 when the text has no such head
TagEnd(str) ==
    IF /\ str # <<>>
       /\ str[1] = "{"
       /\ \E j \in 3..Len(str) : str[j] = "}" /\ \A h \in 2..(j - 1) : str[h] \in WordChars
    THEN CHOOSE j \in 3..Len(str) : str[j] = "}" /\ \A h \in 2..(j - 1) : str[h] \in WordChars
    ELSE 0

RECURSIVE RunEnd(_, _)
\* ((?:\\[,\]]|[^,\]])*) from position i, taken greedily: the position after it
RunEnd(s, i) ==
    IF i > Len(s) THEN i
    ELSE IF s[i] = "\\" /\ i + 1 <= Len(s) /\ s[i + 1] \in {",", "]"} THEN RunEnd(s, i + 2)
    ELSE IF s[i] \notin {",", "]"} THEN RunEnd(s, i + 1)
    ELSE i

\* the escaped separators of the text from q on
EscapedAt(s, q) ==
    {i \in q..(Len(s) - 1) : s[i] = "\\" /\ s[i + 1] \in {",", "]"}}

\* the position after the longest run from q that a separator follows, 0 when
\* none is: a run reaching the end of the text is cut inside its last escaped
\* separator, the only place of it that a separator follows
MatchEnd(s, q) ==
    IF RunEnd(s, q) <= Len(s) THEN RunEnd(s, q)
    ELSE IF EscapedAt(s, q) # {}
    THEN (CHOOSE i \in EscapedAt(s, q) : \A h \in EscapedAt(s, q) : h <= i) + 1
    ELSE 0

RECURSIVE FirstMatch(_, _)
\* the first position from p on where the pattern matches, 0 when none does
FirstMatch(s, p) ==
    IF p > Len(s) + 1 THEN 0
    ELSE IF MatchEnd(s, p) # 0 THEN p
    ELSE FirstMatch(s, p + 1)

RECURSIVE ElementsFrom(_, _, _)
\* the loop over str.matchAll(...): a match of s[q..e-1] is pushed when its
\* index is greater than lastIndex; the search goes on after the match, one
\* position further when the match is empty
PushMatch(s, q, e, lastIndex) ==
    (IF q - 1 > lastIndex THEN <<SubSeq(s, q, e - 1)>> ELSE <<>>)
        \o ElementsFrom(s, IF e > q THEN e ELSE q + 1,
                        IF q - 1 > lastIndex THEN e - 1 ELSE lastIndex)

ElementsFrom(s, p, lastIndex) ==
    IF FirstMatch(s, p) = 0 THEN <<>>
    ELSE PushMatch(s, FirstMatch(s, p), MatchEnd(s, FirstMatch(s, p)), lastIndex)

\* the matches pushed for a text that starts with '[', whose match /^\[/ at
\* index 0 is not pushed
ElementTexts(s) == ElementsFrom(s, 2, 0)

ParsedElements(texts, typeHint) ==
    CArr([j \in 1..Len(texts) |-> parseJcrValue(texts[j], typeHint)])

Unserialized(str, typeHint) ==
    IF str # <<>> /\ str[1] = "["
    THEN [value |-> ParsedElements(ElementTexts(str), typeHint),
          typeHint |-> ArrayTypeOf(typeHint)]
    ELSE [value |-> parseJcrValue(str, typeHint), typeHint |-> typeHint]

unserializeJcrValue(str) ==
    IF TagEnd(str) = 0 THEN Unserialized(str, "")
    ELSE Unserialized(SubSeq(str, TagEnd(str) + 1, Len(str)),
                      Concat(SubSeq(str, 2, TagEnd(str) - 1)))

-----------------------------------------------------------------------------
(* Names of XML elements: jcrToLocalName and localNameToJcr *)

HexChars ==
    <<"0", "1", "2", "3", "4", "5", "6", "7", "8", "9", "a", "b", "c", "d", "e", "f">>

UpperHexChars == <<"A", "B", "C", "D", "E", "F">>

RECURSIVE HexText(_)
\* toString(16)
HexText(n) ==
    IF n < Len(HexChars) THEN <<HexChars[n + 1]>>
    ELSE HexText(n \div Len(HexChars)) \o <<HexChars[(n % Len(HexChars)) + 1]>>

HexDigitValue(c) ==
    IF \E d \in 1..Len(HexChars) : HexChars[d] = c
    THEN (CHOOSE d \in 1..Len(HexChars) : HexChars[d] = c) - 1
    ELSE (CHOOSE d \in 1..Len(UpperHexChars) : UpperHexChars[d] = c) + Len(DigitChars) - 1

RECURSIVE HexValue(_)
\* parseInt(a, 16) of hexadecimal digits
HexValue(q) ==
    IF q = <<>> THEN 0
    ELSE HexValue(SubSeq(q, 1, Len(q) - 1)) * Len(HexChars) + HexDigitValue(q[Len(q)])

\* the characters of the names of the model
CodedChars == {" ", "-", ".", ":", "A", "_", "a", "x"} \cup {DigitChars[d] : d \in 1..Len(DigitChars)}

\* charCodeAt(0)
CharCode(c) ==
    CASE c = " " -> 32
      [] c = "-" -> 45
      [] c = "." -> 46
      [] IsDigit(c) -> 48 + DigitValue(c)
      [] c = ":" -> 58
      [] c = "A" -> 65
      [] c = "_" -> 95
      [] c = "a" -> 97
      [] c = "x" -> 120

\* String.fromCharCode(n)
FromCharCode(n) ==
    IF \E c \in CodedChars : CharCode(c) = n
    THEN CHOOSE c \in CodedChars : CharCode(c) = n
    ELSE "U+" \o Concat(HexText(n))

\* '_x' + v.charCodeAt(0).toString(16) + '_'
EscapedChar(c) == <<"_", "x">> \o HexText(CharCode(c)) \o <<"_">>

\* _(x[0-9a-fA-F]{4}) at position i
LooksEscapedAt(name, i) ==
    /\ name[i] = "_"
    /\ i + 5 <= Len(name)
    /\ name[i + 1] = "x"
    /\ \A j \in (i + 2)..(i + 5) : name[j] \in HexDigits

RECURSIVE LocalNameFrom(_, _)
\* replace(/^[\d-.]|[^\w-.:]|_(x[0-9a-fA-F]{4})/g, (v, a) => a ? '_x005f_' + a : ...)
LocalNameFrom(name, i) ==
    IF i > Len(name) THEN <<>>
    ELSE IF i = 1 /\ (IsDigit(name[i]) \/ name[i] \in {"-", "."})
    THEN EscapedChar(name[i]) \o LocalNameFrom(name, i + 1)
    ELSE IF name[i] \notin WordChars \cup {"-", ".", ":"}
    THEN EscapedChar(name[i]) \o LocalNameFrom(name, i + 1)
    ELSE IF LooksEscapedAt(name, i)
    THEN <<"_", "x", "0", "0", "5", "f", "_">> \o SubSeq(name, i + 1, i + 5)
            \o LocalNameFrom(name, i + 6)
    ELSE <<name[i]>> \o LocalNameFrom(name, i + 1)

jcrToLocalName(name) == LocalNameFrom(name, 1)

RECURSIVE JcrNameFrom(_, _)
\* replace(/_x([0-9a-fA-F]{4})_/g, (v, a) => String.fromCharCode(parseInt(a, 16)))
JcrNameFrom(name, i) ==
    IF i > Len(name) THEN <<>>
    ELSE IF LooksEscapedAt(name, i) /\ i + 6 <= Len(name) /\ name[i + 6] = "_"
    THEN <<FromCharCode(HexValue(SubSeq(name, i + 2, i + 5)))>> \o JcrNameFrom(name, i + 7)
    ELSE <<name[i]>> \o JcrNameFrom(name, i + 1)

localNameToJcr(name) == JcrNameFrom(name, 1)

-----------------------------------------------------------------------------
(* Paths of the local mirror: jcrToFileSystem and fileSystemToJcr *)

RECURSIVE WordRunEnd(_, _)
\* the position after the characters of \w from position i on
WordRunEnd(path, i) ==
    IF i <= Len(path) /\ path[i] \in WordChars THEN WordRunEnd(path, i + 1) ELSE i

\* ([\w]+): at position i: a run of \w that a colon follows
PrefixAt(path, i) ==
    /\ path[i] \in WordChars
    /\ WordRunEnd(path, i) <= Len(path)
    /\ path[WordRunEnd(path, i)] = ":"

RECURSIVE FileSystemFrom(_, _)
\* replace(/([\w]+):/g, '_$1_')
FileSystemFrom(path, i) ==
    IF i > Len(path) THEN <<>>
    ELSE IF PrefixAt(path, i)
    THEN <<"_">> \o SubSeq(path, i, WordRunEnd(path, i) - 1) \o <<"_">>
            \o FileSystemFrom(path, WordRunEnd(path, i) + 1)
    ELSE <<path[i]>> \o FileSystemFrom(path, i + 1)

jcrToFileSystem(path) == FileSystemFrom(path, 1)

\* the underscores that can close _([\w]+)_ opened at position i: \w holds the
\* underscore, so the run goes on over underscores
ClosingAt(path, i) ==
    {j \in (i + 2)..(WordRunEnd(path, i + 1) - 1) : path[j] = "_"}

\* the greedy match takes the last of them
LastClosingAt(path, i) ==
    CHOOSE j \in ClosingAt(path, i) : \A h \in ClosingAt(path, i) : h <= j

RECURSIVE JcrPathFrom(_, _)
\* replace(/_([\w]+)_/g, '$1:')
JcrPathFrom(path, i) ==
    IF i > Len(path) THEN <<>>
    ELSE IF path[i] = "_" /\ ClosingAt(path, i) # {}
    THEN SubSeq(path, i + 1, LastClosingAt(path, i) - 1) \o <<":">>
            \o JcrPathFrom(path, LastClosingAt(path, i) + 1)
    ELSE <<path[i]>> \o JcrPathFrom(path, i + 1)

fileSystemToJcr(path) == JcrPathFrom(path, 1)

-----------------------------------------------------------------------------
(* The content files: convertToJcrContentXML and parseJcrContentXML.        *)
(* A property tree is a sequence of entries [k, v] with k a text and v a    *)
(* value of the codec or a child tree; a document is the tree of its        *)
(* elements, each with its name, its attributes in order and its children   *)
(* in order, as fast-xml-parser hands it over.                              *)

CNode(tree) == [t |-> "node", n |-> tree]

XmlElement(name, attrs, children) ==
    [name |-> name, attrs |-> attrs, children |-> children]

\* the prefixes of the namespace table
XMLNS == <<"jcr", "nt", "cq", "sling">>

XmlEntities ==
    [c |-> <<"&", "<", ">", "\"", "'", "\r", "\n">>,
     e |-> <<"&amp;", "&lt;", "&gt;", "&quot;", "&apos;", "&#xd;", "&#xa;">>]

\* str.replace(/[&<>"'\r\n]/g, v => encoded[v] || v)
encodeXML(str) ==
    [j \in 1..Len(str) |->
        IF \E d \in 1..Len(XmlEntities.c) : XmlEntities.c[d] = str[j]
        THEN XmlEntities.e[CHOOSE d \in 1..Len(XmlEntities.c) : XmlEntities.c[d] = str[j]]
        ELSE str[j]]

\* decode of html-entities, for the entities that encodeXML writes
decodeXML(str) ==
    [j \in 1..Len(str) |->
        IF \E d \in 1..Len(XmlEntities.e) : XmlEntities.e[d] = str[j]
        THEN XmlEntities.c[CHOOSE d \in 1..Len(XmlEntities.e) : XmlEntities.e[d] = str[j]]
        ELSE str[j]]

\* i[0] !== ':'
IsPlainKey(entry) == entry.k = <<>> \/ entry.k[1] # ":"

\* a property written as an attribute
IsAttribute(entry) ==
    /\ IsPlainKey(entry)
    /\ entry.v.t # "node"
    /\ \A j \in 1..Len(internalProps) : internalProps[j] # Concat(entry.k)

\* a child written as an element
IsChildEntry(entry) == IsPlainKey(entry) /\ entry.v.t = "node"

\* ' ', i, '="', encodeXML(serializeJcrValue(value)), '"'
Attributes(entries) ==
    [j \in 1..Len(entries) |->
        Entry(entries[j].k, encodeXML(serializeJcrValue(entries[j].v)))]

\* /^([\w_]+):/.test(i) && RegExp.$1
NamespaceOf(text) ==
    IF /\ WordRunEnd(text, 1) > 1
       /\ WordRunEnd(text, 1) <= Len(text)
       /\ text[WordRunEnd(text, 1)] = ":"
    THEN Concat(SubSeq(text, 1, WordRunEnd(text, 1) - 1))
    ELSE ""

\* makeArray(value).forEach(addNamespace), which looks at strings only
ValueNamespaces(value) ==
    IF value.t = "array"
    THEN {NamespaceOf(value.e[j].c) : j \in {h \in 1..Len(value.e) : value.e[h].t = "string"}}
    ELSE IF value.t = "string" THEN {NamespaceOf(value.c)}
    ELSE {}

RECURSIVE Namespaces(_)
\* the prefixes addNamespace is called with while the tree is written
Namespaces(properties) ==
    UNION {{NamespaceOf(properties[j].k)}
                \cup (IF IsChildEntry(properties[j]) THEN Namespaces(properties[j].v.n)
                      ELSE IF IsAttribute(properties[j])
                      THEN ValueNamespaces(properties[j].v)
                      ELSE {})
            : j \in {h \in 1..Len(properties) : IsPlainKey(properties[h])}}

\* the declarations put behind the name of the root element; the order in which
\* they stand is not read by parseJcrContentXML
Declarations(used) ==
    [j \in 1..Len(SelectSeq(XMLNS, LAMBDA ns : ns \in used)) |->
        Entry(<<"xmlns", ":", SelectSeq(XMLNS, LAMBDA ns : ns \in used)[j]>>, <<"uri">>)]

RECURSIVE XmlProcess(_, _)
ChildElements(entries) ==
    [j \in 1..Len(entries) |-> XmlProcess(entries[j].k, entries[j].v.n)]

\* process(name, properties) of convertToJcrContentXML
XmlProcess(name, properties) ==
    XmlElement(jcrToLocalName(name),
               Attributes(SelectSeq(properties, IsAttribute)),
               ChildElements(SelectSeq(properties, IsChildEntry)))

WithDeclarations(element, declarations) ==
    XmlElement(element.name, declarations \o element.attrs, element.children)

JcrRoot == <<"jcr", ":", "root">>

convertToJcrContentXML(properties) ==
    WithDeclarations(XmlProcess(JcrRoot, properties), Declarations(Namespaces(properties)))

\* /^@_xmlns($|:)/.test(i)
IsDeclaration(attr) ==
    /\ attr.k # <<>>
    /\ attr.k[1] = "xmlns"
    /\ Len(attr.k) = 1 \/ attr.k[2] = ":"

\* props[':' + name] = typeHint when there is one, props[name] = value
ParsedProperty(name, parsed) ==
    (IF parsed.typeHint # "" THEN <<Entry(<<":">> \o name, CStr(<<parsed.typeHint>>))>>
     ELSE <<>>)
        \o <<Entry(name, parsed.value)>>

RECURSIVE ParsedAttributes(_)
ParsedAttributes(attrs) ==
    IF attrs = <<>> THEN <<>>
    ELSE (IF IsDeclaration(Head(attrs)) THEN <<>>
          ELSE ParsedProperty(Head(attrs).k, unserializeJcrValue(decodeXML(Head(attrs).v))))
            \o ParsedAttributes(Tail(attrs))

RECURSIVE XmlParse(_)
\* process(root, props) of parseJcrContentXML
XmlParse(element) ==
    ParsedAttributes(element.attrs)
        \o [j \in 1..Len(element.children) |->
                Entry(localNameToJcr(element.children[j].name),
                      CNode(XmlParse(element.children[j])))]

parseJcrContentXML(content) == XmlParse(content)

-----------------------------------------------------------------------------
(* fetchJcrNode and its modes *)

FETCH_FILTER == 1

FETCH_FILTER_CHILDREN == 2

FETCH_RECURSIVE == 4

\* the flags are distinct bits, so that | adds them
FetchMode ==
    [Normal |-> 0,
     Property |-> FETCH_FILTER,
     Children |-> FETCH_FILTER + FETCH_FILTER_CHILDREN,
     Recursive |-> FETCH_RECURSIVE,
     RecursiveChildren |-> FETCH_FILTER + FETCH_FILTER_CHILDREN + FETCH_RECURSIVE]

\* mode & flag, for a flag of one bit
BitAnd(mode, flag) == ((mode \div flag) % 2) * flag

\* the depth asked for: (mode & FETCH_FILTER_CHILDREN) >> 1 unless the mode is recursive
RequestDepth(mode, depth) ==
    IF BitAnd(mode, FETCH_RECURSIVE) = 0
    THEN BitAnd(mode, FETCH_FILTER_CHILDREN) \div 2
    ELSE depth

\* `${depth < 0 ? '' : '.' + depth}.json`
JsonSuffix(depth) ==
    (IF depth < 0 THEN "" ELSE "." \o Concat(NatText(depth))) \o ".json"

RECURSIVE JsonAtDepth(_, _)
\* the answer of the repository for a node at a depth: its properties, and its
\* children rendered one level less deep, empty at depth 0
JsonAtDepth(node, depth) ==
    [i \in 1..Len(node.n) |->
        IF node.n[i].v.t = "node"
        THEN Entry(node.n[i].k,
                   Obj(IF depth = 0 THEN <<>> ELSE JsonAtDepth(node.n[i].v, depth - 1)))
        ELSE node.n[i]]

\* the depths the repository may serve: the one asked for, its own when none is
ServedDepths(depth) == IF depth < 0 THEN 0..MaxDepth ELSE {depth}

RECURSIVE cleanData(_, _, _)
\* the child that stays is not cleaned
CleanEntryShallow(entry, keepChildren, recursive) == entry

\* else if (keepChildren && recursive) cleanData(data[i], true, true)
CleanEntry(entry, keepChildren, recursive) ==
    IF keepChildren /\ recursive
    THEN Entry(entry.k, Obj(cleanData(entry.v.n, TRUE, TRUE)))
    ELSE entry

CleanEntries(kept, keepChildren, recursive) ==
    [j \in 1..Len(kept) |-> CleanEntry(kept[j], keepChildren, recursive)]

\* if (isChildNode(data, i) !== keepChildren) delete data[i]
cleanData(data, keepChildren, recursive) ==
    CleanEntries(SelectSeq(data, LAMBDA en : (en.v.t = "node") = keepChildren),
                 keepChildren, recursive)

\* the data returned as it was received
Unfiltered(data, mode) == data

\* if (mode & FETCH_FILTER) cleanData(data, mode & FETCH_FILTER_CHILDREN, mode & FETCH_RECURSIVE)
Filtered(data, mode) ==
    IF BitAnd(mode, FETCH_FILTER) # 0
    THEN cleanData(data, BitAnd(mode, FETCH_FILTER_CHILDREN) # 0,
                   BitAnd(mode, FETCH_RECURSIVE) # 0)
    ELSE data

-----------------------------------------------------------------------------
(* FetchClient.fetch: credentials and the retry after a 401 *)

\* getAuthHeader({ username: 'admin', password: 'admin' })
DefaultHeader == "Basic admin:admin"

\* the headers setCredential may store for the host
AuthHeaders == {DefaultHeader, "Bearer token"}

\* the hosts the constructor stores the default credential for
DefaultHosts == {"http://localhost:4502", "http://localhost:4503"}

\* the client after construction, seen from the host of the call
FetchClient(c) ==
    [authHeaders |-> IF c.op \in {"fetch", "fetches"} /\ c.host \notin DefaultHosts THEN "" ELSE DefaultHeader,
     pending |-> FALSE]

\* an activation of fetch: where it waits, the header it read, and whether its
\* options carry x-retry
FetchFrame(pc, header, retry) == [pc |-> pc, header |-> header, retry |-> retry]

\* fetch(url.toString(true), appendHeader(options, header))
HttpRequest(header, retry) ==
    Event("req", "http", <<>>,
          <<Field("authorization", header)>>
            \o (IF retry THEN <<Field("x-retry", "1")>> ELSE <<>>), "")

HttpResponse(statusCode) == Event("res", "http", <<>>, <<>>, Concat(NatText(statusCode)))

\* emitter.fire(event) at every request for a credential
FiredEachTime(cl, emitter) == <<Event("event", emitter, <<>>, <<>>, "")>>

\* emitter.fire(event), when no request for a credential is pending
Fired(cl, emitter) ==
    IF cl.pending THEN <<>> ELSE <<Event("event", emitter, <<>>, <<>>, "")>>

\* a 401 is retried whatever the options carry
MayRetryAgain(frame) == TRUE

\* !options?.headers?.['x-retry']
MayRetry(frame) == ~frame.retry

\* this.fetch(url, options) begins: it asks for a credential when the host has
\* none, else it sends the request with the header of the host
EnterFetch(stk, tr, cl, retry) ==
    IF cl.authHeaders = ""
    THEN /\ stack' = Append(stk, FetchFrame("requestCredential", "", retry))
         /\ trace' = tr \o Fired(cl, "onDidRequestAuthentication")
         /\ client' = [cl EXCEPT !.pending = TRUE]
    ELSE /\ stack' = Append(stk, FetchFrame("response", cl.authHeaders, retry))
         /\ trace' = Append(tr, HttpRequest(cl.authHeaders, retry))
         /\ client' = cl

\* the promise of fetch rejects, and with it that of every caller on the stack
FetchRejects(tr, cl, error) ==
    /\ status' = "failed"
    /\ thrown' = error
    /\ stack' = <<>>
    /\ trace' = tr
    /\ client' = cl

\* a fetch that awaits this.pending[host].promise
Waiting(frame) == frame.pc \in {"requestCredential", "failedCredential"}

\* a fetch whose promise has settled
Settled(frame) == frame.pc \in {"done", "failed"}

\* the promise resolves: a fetch that asked before its first request sends it
\* with the header of the host, a fetch that asked after a 401 calls itself
\* with x-retry and sends its request likewise
AfterCredential(frame, header) ==
    IF Waiting(frame)
    THEN FetchFrame("response", header, frame.retry \/ frame.pc = "failedCredential")
    ELSE frame

\* the promise rejects: the await of line 70 throws, canFail of line 82 gives
\* undefined and the 401 is thrown again
AfterCancel(frame) ==
    IF Waiting(frame) THEN FetchFrame("failed", frame.header, frame.retry) ELSE frame

\* the requests sent by the fetches that waited, as they go on
RequestsOf(waited) ==
    [j \in 1..Len(waited) |->
        HttpRequest(waited[j].header, waited[j].retry)]

\* the fetches of stk that waited, as they go on with the header
Resumed(stk, header) ==
    [j \in 1..Len(SelectSeq(stk, Waiting)) |->
        AfterCredential(SelectSeq(stk, Waiting)[j], header)]

\* the call is over when every fetch has settled
StatusOf(stk) == IF \A i \in 1..Len(stk) : Settled(stk[i]) THEN "done" ELSE "running"

\* setCredential(host, cred) and event.cancel(), as they show in the trace
CredentialEvent(kind, header) ==
    Event("event", kind, <<>>, <<Field("authorization", header)>>, "")

-----------------------------------------------------------------------------
(* The checked instances: remote trees, desired trees and options *)

NoOptions == [ignoreProps |-> <<>>, deleteProps |-> FALSE, deleteChildren |-> FALSE]

PrimaryType == Entry(jcrPrimaryType, Str("nt:unstructured"))

Opt(k, v) == IF v.t = "none" THEN <<>> ELSE <<Entry(k, v)>>

When(cond, tree) == IF cond THEN tree ELSE <<>>

ElemVals == {Str("a"), Str("b")}

ArrayVals == {Arr(q) : q \in UNION {[1..n -> ElemVals] : n \in 0..MaxArrayLen}}

ScalarVals == {Str("a"), Str("b"), Str("ab"), Str("1"), Num("1")}

\* the values of the property "tags": absent, a scalar or an array
PropVals == {Undefined} \cup ScalarVals \cup ArrayVals

\* what else the two trees hold besides "title" and "tags"
Extras == {"none", "audit", "note", "noteIgnored", "meta", "hint"}

CurrentProps(cv, extra) ==
    <<PrimaryType, Entry("title", Str("a"))>> \o Opt("tags", cv)
        \o When(extra = "audit", <<Entry("jcr:created", Str("a"))>>)
        \o When(extra \in {"note", "noteIgnored"}, <<Entry("note", Str("a"))>>)
        \o When(extra = "meta", <<Entry(":tags", Str("Date"))>>)

DesiredProps(dv, hasType, extra) ==
    When(hasType, <<PrimaryType>>) \o <<Entry("title", Str("a"))>> \o Opt("tags", dv)
        \o When(extra = "audit", <<Entry("jcr:created", Str("b"))>>)
        \o When(extra \in {"note", "noteIgnored"}, <<Entry("note", Str("b"))>>)
        \o When(extra = "hint", <<Entry(":tags", Str("String[]"))>>)

\* instances that vary one property of the node at jcrPath
PropertyCases ==
    { [remote |-> IF exists THEN Obj(CurrentProps(cv, extra)) ELSE Undefined,
       desired |-> DesiredProps(dv, hasType, extra),
       options |-> [ignoreProps |-> IF extra = "noteIgnored" THEN <<"note">> ELSE <<>>,
                    deleteProps |-> dp, deleteChildren |-> FALSE]] :
        exists \in BOOLEAN, cv \in PropVals, dv \in PropVals, hasType \in BOOLEAN, extra \in Extras, dp \in BOOLEAN }

ChildNames == {"a", "b", "c"}

\* lists of distinct child names
ChildLists ==
    {q \in UNION {[1..n -> ChildNames] : n \in 0..MaxChildren} :
        \A i, j \in 1..Len(q) : i # j => q[i] # q[j]}

GrandChild == Entry("g", Obj(<<Entry("title", Str("a"))>>))

\* the titles a desired child may have, "" standing for a child without title
ChildTitles == {"a", "b", ""}

ChildTree(title, withGrandChild) ==
    <<PrimaryType>> \o When(title # "", <<Entry("title", Str(title))>>)
        \o When(withGrandChild, <<GrandChild>>)

ParentTree(names, title, grand) ==
    <<PrimaryType>> \o
        [i \in 1..Len(names) |->
            Entry(names[i], Obj(ChildTree(title, grand /\ names[i] = "a")))]

\* instances that vary the child nodes below jcrPath
ChildCases ==
    { [remote |-> r,
       desired |-> ParentTree(dl, title, dg),
       options |-> [ignoreProps |-> <<>>, deleteProps |-> dp, deleteChildren |-> dc]] :
        r \in {Obj(ParentTree(cl, "a", cg)) : cl \in ChildLists, cg \in BOOLEAN}
                \cup {Undefined},
        dl \in ChildLists, title \in ChildTitles, dg \in BOOLEAN,
        dp \in BOOLEAN, dc \in BOOLEAN }

\* the child a of the instances that hold ignored properties
AuditedChild(title, stamp) ==
    Entry("a", Obj(<<PrimaryType, Entry("title", Str(title)), Entry("note", Str(stamp)),
                     Entry("cq:lastModified", Str(stamp))>>))

\* instances that hold internal properties and a property named in ignoreProps,
\* at jcrPath and at its child a
IgnoreCases ==
    { [remote |-> IF exists
                  THEN Obj(<<PrimaryType, Entry("jcr:created", Str("a")),
                             AuditedChild("a", "a")>>)
                  ELSE Undefined,
       desired |-> <<PrimaryType>> \o When(stamped, <<Entry("jcr:created", Str("b"))>>)
                        \o <<AuditedChild(title, "b")>>,
       options |-> [ignoreProps |-> ignored, deleteProps |-> dp, deleteChildren |-> FALSE]] :
        exists \in BOOLEAN, stamped \in BOOLEAN, title \in {"a", "b"},
        ignored \in {<<>>, <<"title">>}, dp \in BOOLEAN }

\* the properties another writer may change, and the value it writes
ExternalFields == {"title", "note"}

ExternalValue == Str("ab")

\* instances in which another client writes to the node at jcrPath while the
\* call is under way
ExternalCases ==
    { [remote |-> Obj(<<PrimaryType, Entry("title", Str("a")), Entry("note", Str("a"))>>),
       desired |-> <<PrimaryType, Entry("title", Str(title)), Entry("note", Str(note))>>,
       options |-> [ignoreProps |-> <<>>, deleteProps |-> dp, deleteChildren |-> FALSE]] :
        title \in {"a", "b"}, note \in {"a", "b"}, dp \in BOOLEAN }

ExternalCall(desired, options) ==
    [op |-> "saveJcrProperties", desired |-> desired, options |-> options,
     src |-> "", dst |-> "", writer |-> TRUE]

\* instances in which one level has a write, children to delete and a child
\* tree to enter
PhaseCases ==
    { [remote |-> Obj(<<PrimaryType, Entry("title", Str("a")),
                        Entry("a", Obj(ChildTree("a", FALSE))),
                        Entry("b", Obj(ChildTree("a", FALSE)))>>),
       desired |-> <<PrimaryType, Entry("title", Str(title)),
                     Entry(name, Obj(ChildTree("a", FALSE)))>>,
       options |-> [ignoreProps |-> <<>>, deleteProps |-> FALSE, deleteChildren |-> dc]] :
        title \in {"a", "b"}, name \in {"a", "c"}, dc \in BOOLEAN }

FileNode == Obj(<<Entry(jcrPrimaryType, Str("nt:file"))>>)

\* scheme and authority of a Uri
Hosts == {"http://localhost:4502", "http://localhost:4503", "https://localhost:4502"}

\* the characters of the texts given to the value codec
CodecAlphabet == {"a", "1", "[", "{", "\\", ","}

RECURSIVE TextsUpTo(_, _)
\* the texts of at most n characters of a set
TextsUpTo(chars, n) ==
    IF n = 0 THEN {<<>>}
    ELSE TextsUpTo(chars, n - 1)
            \cup {<<c>> \o text : c \in chars, text \in TextsUpTo(chars, n - 1)}

\* the scalar values of the five value types
CodecScalars ==
    {CStr(text) : text \in TextsUpTo(CodecAlphabet, MaxTextLen)}
        \cup {CBool(TRUE), CBool(FALSE)}
        \cup {CNum(FALSE, 0, 0), CNum(FALSE, 12, 0), CNum(TRUE, 1, 0)}
        \cup {CNum(FALSE, 15, 1), CNum(TRUE, 25, 2)}
        \cup {CDate(<<IsoDate>>)}

\* arrays of strings, the empty array and [''] among them
CodecArrays ==
    {CArr(q) : q \in UNION {[1..n -> {CStr(<<>>), CStr(<<"a">>), CStr(<<",">>)}] :
                                n \in 0..MaxArrayLen}}

\* the text of a value with its type in front: {Type}text
Tagged(tag, text) == IF tag = "" THEN text ELSE <<"{", tag, "}">> \o text

\* the characters of the names given to jcrToLocalName
NameAlphabet == {"a", ":", "1", "-", " "}

\* names that look like an escape already
EscapeLikeNames ==
    {<<"_", "x", "0", "0", "4", "1", "_">>,
     <<"_", "x", "0", "0", "5", "f", "_">>,
     <<"a", "_", "x", "0", "0", "2", "0", "_", "b">>,
     <<"_", "x", "0", "0", "4", "1">>}

NameCall(name) == [op |-> "jcrToLocalName", name |-> name]

\* the scalar properties of the trees written to a content file
XmlScalars ==
    {CStr(<<"a">>), CStr(<<"1">>), CStr(TrueText), CNum(FALSE, 12, 0), CNum(FALSE, 15, 1),
     CBool(TRUE), CDate(<<IsoDate>>)}

\* their array properties
XmlArrays ==
    {CArr(<<>>), CArr(<<CStr(<<"a">>)>>), CArr(<<CNum(FALSE, 1, 0), CNum(FALSE, 2, 0)>>)}

\* their child nodes
XmlChildren ==
    {<<>>,
     <<Entry(<<"a">>, CNode(<<>>))>>,
     <<Entry(<<"a">>, CNode(<<Entry(<<"title">>, CStr(<<"a">>))>>))>>,
     <<Entry(<<"jcr", ":", "a">>, CNode(<<Entry(<<"title">>, CNum(FALSE, 12, 0))>>))>>}

OptEntry(k, v) == IF v.t = "none" THEN <<>> ELSE <<Entry(k, v)>>

\* property trees without internal properties
XmlTrees ==
    {<<Entry(<<"jcr", ":", "primaryType">>, CStr(<<"nt", ":", "unstructured">>))>>
        \o OptEntry(<<"title">>, title) \o OptEntry(<<"tags">>, tags) \o children :
            title \in XmlScalars \cup {CUndefined},
            tags \in XmlArrays \cup {CUndefined},
            children \in XmlChildren}

XmlCall(properties) == [op |-> "convertToJcrContentXML", properties |-> properties]

\* the remote nodes fetched: no child, a child with a grandchild, two children
FetchedNodes ==
    {Obj(ParentTree(names, "a", TRUE)) : names \in {<<>>, <<"a">>, <<"a", "b">>}}

FetchModes ==
    {FetchMode.Normal, FetchMode.Property, FetchMode.Children, FetchMode.Recursive,
     FetchMode.RecursiveChildren}

FetchCall(mode, depth) == [op |-> "fetchJcrNode", mode |-> mode, depth |-> depth]

\* the name of the file that holds the properties of a folder
ContentXml == ".content.xml"

\* local paths below the jcr root: a content file, a file of a namespaced folder
LocalPaths ==
    {<<"/", "a", "/", ContentXml>>, <<"/", "_", "jcr", "_", "content", "/", "a.txt">>}

\* the default of aemexplorer.deleteRemoteFiles
DefaultDeleteRemoteFiles == FALSE

\* the nodes the host may hold at the remote path: none, a file, a node of another type
SyncedNodes == {Undefined, FileNode, Obj(<<PrimaryType>>)}

SyncCall(localPath, deleted, inProject, isFile, deleteRemoteFiles) ==
    [op |-> "handleLocalChange", localPath |-> localPath, deleted |-> deleted,
     inProject |-> inProject, isFile |-> isFile, deleteRemoteFiles |-> deleteRemoteFiles]

\* several fetches of one host under way at once
FetchesCall(host, count) == [op |-> "fetches", host |-> host, count |-> count]

ClientCall(host) == [op |-> "fetch", host |-> host]

\* the characters of the paths given to the path escaping
PathAlphabet == {"a", "_", ":", "/"}

PathCall(op, path) == [op |-> op, path |-> path]

CodecCall(value, tag) == [op |-> "serializeJcrValue", value |-> value, tag |-> tag]

Call(op, desired, options, src, dst) ==
    [op |-> op, desired |-> desired, options |-> options, src |-> src, dst |-> dst]

-----------------------------------------------------------------------------
(* Initial states: an operation about to be invoked on a remote tree *)

Init ==
    /\ \/ \E c \in PropertyCases \cup ChildCases \cup IgnoreCases \cup PhaseCases :
            /\ call = Call("saveJcrProperties", c.desired, c.options, "", "")
            /\ remote = c.remote
       \/ \E c \in ExternalCases :
            /\ call = ExternalCall(c.desired, c.options)
            /\ remote = c.remote
       \/ /\ call = Call("saveJcrFile", <<>>, NoOptions, "", "")
          /\ remote \in {Undefined, FileNode}
       \/ /\ call = Call("deleteJcrNode", <<>>, NoOptions, "", "")
          /\ remote \in {Undefined, FileNode}
       \/ /\ \E src, dst \in Hosts : call = Call("moveJcrNode", <<>>, NoOptions, src, dst)
          /\ remote = FileNode
       \/ /\ \/ \E v \in CodecScalars : call = CodecCall(v, TextTypeOf(v))
             \/ \E v \in CodecArrays : call = CodecCall(v, "")
          /\ remote = Undefined
       \/ /\ \E name \in (TextsUpTo(NameAlphabet, MaxTextLen) \ {<<>>}) \cup EscapeLikeNames :
                call = NameCall(name)
          /\ remote = Undefined
       \/ /\ \E mode \in FetchModes, depth \in (-1)..MaxDepth : call = FetchCall(mode, depth)
          /\ remote \in FetchedNodes
       \/ /\ \E host \in Hosts : call = ClientCall(host)
          /\ remote = FileNode
       \/ /\ \E host \in Hosts, count \in 1..MaxFetches : call = FetchesCall(host, count)
          /\ remote = FileNode
       \/ /\ \E localPath \in LocalPaths, deleted, inProject, isFile \in BOOLEAN :
                \E deleteRemoteFiles \in {DefaultDeleteRemoteFiles, TRUE} :
                    call = SyncCall(localPath, deleted, inProject, isFile, deleteRemoteFiles)
          /\ remote \in SyncedNodes
       \/ /\ \E properties \in XmlTrees : call = XmlCall(properties)
          /\ remote = Undefined
       \/ /\ \E op \in {"jcrToFileSystem", "fileSystemToJcr"} :
                \E path \in TextsUpTo(PathAlphabet, MaxPathLen) : call = PathCall(op, path)
          /\ remote = Undefined
    /\ remote0 = remote
    /\ client = FetchClient(call)
    /\ returned = Undefined
    /\ stack = <<>>
    /\ inflight = {}
    /\ changes = 0
    /\ status = "idle"
    /\ thrown = ""
    /\ messages = <<>>
    /\ trace = <<>>

-----------------------------------------------------------------------------
(* Actions *)

Running == call.op = "saveJcrProperties" /\ status = "running"

ErrorLine(what) == "[ERROR] " \o what

\* A synchronous run of saveJcrProperties ends: processNode awaits the next
\* response, or the promise resolves (writeMessage when changes were reported),
\* or the catch block wraps the error into an OperationError, which logs itself.
Proceed(out, received, logged, newChanges) ==
    /\ changes' = newChanges
    /\ inflight' = (inflight \ {received.path}) \cup out.started
    /\ IF out.how = "await" THEN
            /\ stack' = out.stack
            /\ trace' = Append(trace, received) \o out.sent
            /\ messages' = messages \o logged
            /\ UNCHANGED <<status, thrown>>
       ELSE IF out.how = "return" THEN
            /\ stack' = <<>>
            /\ trace' = Append(trace, received)
            /\ messages' = messages \o logged
                    \o When(newChanges > 0, <<"repo: Updated">>)
            /\ status' = "done"
            /\ UNCHANGED thrown
       ELSE /\ stack' = <<>>
            /\ trace' = Append(trace, received)
            /\ messages' = messages \o logged \o <<ErrorLine("Unable to update")>>
            /\ status' = "failed"
            /\ thrown' = "OperationError"

\* an error that is dropped: the activation returns as if it had finished
Swallowed(stk) == ReturnFrom(stk)

\* an error propagates out of processNode into the catch block of saveJcrProperties
Thrown(stk) == Outcome(stk, <<>>, {}, "throw")

\* another client has written to the node since the call began
Overwritten == \E i \in 1..Len(trace) : trace[i].dir = "ext"

\* Another client writes a property of the node while the write of the level
\* is on its way: the repository holds no lock and the call holds none either.
ExternalWrite ==
    /\ Running
    /\ "writer" \in DOMAIN call
    /\ Top(stack).pc = "post"
    /\ ~Overwritten
    /\ \E f \in ExternalFields :
        /\ remote' = WithNodeAt(remote, Top(stack).path,
                        Obj(Put(NodeAt(remote, Top(stack).path).n, f, ExternalValue)))
        /\ trace' = Append(trace, Event("ext", "write", Top(stack).path,
                                        <<Field(f, ExternalValue.s)>>, ""))
    /\ UNCHANGED <<call, client, returned, remote0, stack, inflight, changes, status,
                   thrown, messages>>

\* saveJcrProperties(jcrPath, properties, options) up to its first await
InvokeSaveJcrProperties ==
    /\ status = "idle"
    /\ call.op = "saveJcrProperties"
    /\ stack' = <<Frame(<<>>, call.desired, -1)>>
    /\ trace' = <<Event("req", "fetch", <<>>, <<>>, "")>>
    /\ status' = "running"
    /\ UNCHANGED <<call, client, returned, remote, remote0, inflight, changes, thrown, messages>>

\* fetchJcrNode resolves with the JSON of the node
FetchOk ==
    /\ Running
    /\ Top(stack).pc = "fetch"
    /\ NodeAt(remote, Top(stack).path).t = "node"
    /\ Proceed(AfterFetch(stack, DepthZeroJson(NodeAt(remote, Top(stack).path)),
                          call.options),
               Event("res", "fetch", Top(stack).path, <<>>, "ok"), <<>>, changes)
    /\ UNCHANGED <<call, client, returned, remote, remote0>>

\* a 404 handled like any other rejection of fetchJcrNode
FetchNotFoundRethrown ==
    /\ Running
    /\ Top(stack).pc = "fetch"
    /\ NodeAt(remote, Top(stack).path).t # "node"
    /\ Proceed(Outcome(stack, <<>>, {}, "throw"),
               Event("res", "fetch", Top(stack).path, <<>>, "404"),
               <<ErrorLine("transport")>>, changes)
    /\ UNCHANGED <<call, client, returned, remote, remote0>>

\* fetchJcrNode rejects with a FetchError of status 404: currentData = {}
FetchNotFound ==
    /\ Running
    /\ Top(stack).pc = "fetch"
    /\ NodeAt(remote, Top(stack).path).t # "node"
    /\ Proceed(AfterFetch(stack, <<>>, call.options),
               Event("res", "fetch", Top(stack).path, <<>>, "404"),
               <<ErrorLine("transport")>>, changes)
    /\ UNCHANGED <<call, client, returned, remote, remote0>>

\* fetchJcrNode rejects with any other error: processNode rethrows it
FetchFail ==
    /\ Running
    /\ Top(stack).pc = "fetch"
    /\ Proceed(Thrown(stack), Event("res", "fetch", Top(stack).path, <<>>, "error"),
               <<ErrorLine("transport")>>, changes)
    /\ UNCHANGED <<call, client, returned, remote, remote0>>

\* client.post resolves with a response that lists its changes
PostOk ==
    /\ Running
    /\ Top(stack).pc = "post"
    /\ remote' = ServerPost(remote, Top(stack).path, Top(stack).mut.form)
    /\ Proceed(AfterPost(stack),
               Event("res", "post", Top(stack).path, Top(stack).mut.form, "ok"), <<>>,
               changes + ServerChanges(remote, Top(stack).path, Top(stack).mut.form))
    /\ UNCHANGED <<call, client, returned, remote0>>

\* client.post resolves with a body that is no JSON: res.changes is undefined
\* and spreading it throws
PostGarbled ==
    /\ Running
    /\ Top(stack).pc = "post"
    /\ remote' = ServerPost(remote, Top(stack).path, Top(stack).mut.form)
    /\ Proceed(Thrown(stack),
               Event("res", "post", Top(stack).path, Top(stack).mut.form, "garbled"),
               <<>>, changes)
    /\ UNCHANGED <<call, client, returned, remote0>>

\* client.post rejects
PostFail ==
    /\ Running
    /\ Top(stack).pc = "post"
    /\ Proceed(Thrown(stack),
               Event("res", "post", Top(stack).path, Top(stack).mut.form, "error"),
               <<ErrorLine("transport")>>, changes)
    /\ UNCHANGED <<call, client, returned, remote, remote0>>

\* a response that no awaiting code of saveJcrProperties reacts to any more
Linger(received, logged) ==
    /\ trace' = Append(trace, received)
    /\ messages' = messages \o logged
    /\ inflight' = inflight \ {received.path}
    /\ UNCHANGED <<stack, status, thrown, changes>>

\* the promise of a single deleteJcrNode / saveJcrFile / moveJcrNode call settles
Finish(received, logged, how, error) ==
    /\ trace' = Append(trace, received)
    /\ messages' = messages \o logged
    /\ inflight' = inflight \ {received.path}
    /\ status' = how
    /\ thrown' = error
    /\ UNCHANGED <<stack, changes>>

\* deleteJcrNode resolved or rejected, inside Promise.all or on its own
DeleteSettles(received, logged, ok) ==
    IF call.op = "deleteJcrNode" THEN
        Finish(received, logged, IF ok THEN "done" ELSE "failed",
               IF ok THEN "" ELSE "OperationError")
    ELSE IF ~Running THEN Linger(received, logged)
    ELSE IF ~ok THEN Proceed(Thrown(stack), received, logged, changes)
    ELSE IF inflight = {received.path}
    THEN Proceed(AfterDeletes(stack), received, logged, changes)
    ELSE Linger(received, logged)

\* deleteJcrNode(jcrPath) up to its await
InvokeDeleteJcrNode ==
    /\ status = "idle"
    /\ call.op = "deleteJcrNode"
    /\ inflight' = {<<>>}
    /\ trace' = <<Event("req", "delete", <<>>, <<>>, "")>>
    /\ status' = "running"
    /\ UNCHANGED <<call, client, returned, remote, remote0, stack, changes, thrown, messages>>

\* the delete request is answered with a non-empty changes list
DeleteOk ==
    \E path \in inflight :
        /\ NodeAt(remote, path).t = "node"
        /\ remote' = WithoutNodeAt(remote, path)
        /\ DeleteSettles(Event("res", "delete", path, <<>>, "ok"),
                         <<"repo: Deleted">>, TRUE)
        /\ UNCHANGED <<call, client, returned, remote0>>

\* the delete request is answered without any change: the assertion fails
DeleteNoChange ==
    \E path \in inflight :
        /\ DeleteSettles(Event("res", "delete", path, <<>>, "nochange"),
                         <<ErrorLine("Unable to delete")>>, FALSE)
        /\ UNCHANGED <<call, client, returned, remote, remote0>>

\* the delete request fails in the transport
DeleteFail ==
    \E path \in inflight :
        /\ DeleteSettles(Event("res", "delete", path, <<>>, "error"),
                         <<ErrorLine("transport"), ErrorLine("Unable to delete")>>, FALSE)
        /\ UNCHANGED <<call, client, returned, remote, remote0>>

\* saveJcrFile(jcrPath, data, mimeType) up to its await
InvokeSaveJcrFile ==
    /\ status = "idle"
    /\ call.op = "saveJcrFile"
    /\ trace' = <<Event("req", "file", <<>>,
                        <<Field("*@TypeHint", "nt:file"), Field("*", "data")>>, "")>>
    /\ status' = "running"
    /\ UNCHANGED <<call, client, returned, remote, remote0, stack, inflight, changes, thrown, messages>>

FileAwaited == call.op = "saveJcrFile" /\ status = "running"

\* the upload is answered with a non-empty changes list
FileOk ==
    /\ FileAwaited
    /\ remote' = FileNode
    /\ Finish(Event("res", "file", <<>>, <<>>, "ok"), <<"repo: Updated">>, "done", "")
    /\ UNCHANGED <<call, client, returned, remote0>>

\* an upload without any change taken for a success
FileNoChangeAccepted ==
    /\ call.op = "saveJcrFile" /\ status = "running"
    /\ Finish(Event("res", "file", <<>>, <<>>, "nochange"), <<"repo: Updated">>, "done", "")
    /\ UNCHANGED <<call, client, returned, remote, remote0>>

\* the upload is answered without any change: the assertion fails
FileNoChange ==
    /\ FileAwaited
    /\ Finish(Event("res", "file", <<>>, <<>>, "nochange"),
              <<ErrorLine("Unable to update")>>, "failed", "OperationError")
    /\ UNCHANGED <<call, client, returned, remote, remote0>>

\* the upload fails in the transport
FileFail ==
    /\ FileAwaited
    /\ Finish(Event("res", "file", <<>>, <<>>, "error"),
              <<ErrorLine("transport"), ErrorLine("Unable to update")>>,
              "failed", "OperationError")
    /\ UNCHANGED <<call, client, returned, remote, remote0>>

\* how moveJcrNode settles when its post rejects
MoveFailure == "TransportError"

\* a move that does not compare the servers
InvokeMoveAnyHost ==
    /\ status = "idle"
    /\ call.op = "moveJcrNode"
    /\ status' = "running"
    /\ trace' = <<Event("req", "move", <<>>, <<Field(":diff", ">src : dst")>>, "")>>
    /\ UNCHANGED <<call, client, returned, remote, remote0, stack, inflight, changes, thrown, messages>>

\* moveJcrNode(src, dst) up to its await, or to its throw for two servers
InvokeMoveJcrNode ==
    /\ status = "idle"
    /\ call.op = "moveJcrNode"
    /\ IF call.src # call.dst
       THEN /\ status' = "failed"
            /\ thrown' = "OperationError"
            /\ messages' = <<ErrorLine("Destination is on different server than source")>>
            /\ UNCHANGED trace
       ELSE /\ status' = "running"
            /\ trace' = <<Event("req", "move", <<>>, <<Field(":diff", ">src : dst")>>, "")>>
            /\ UNCHANGED <<thrown, messages>>
    /\ UNCHANGED <<call, client, returned, remote, remote0, stack, inflight, changes>>

MoveAwaited == call.op = "moveJcrNode" /\ status = "running"

\* the move request is answered
MoveOk ==
    /\ MoveAwaited
    /\ remote' = Undefined
    /\ Finish(Event("res", "move", <<>>, <<>>, "ok"), <<"repo: Moved">>, "done", "")
    /\ UNCHANGED <<call, client, returned, remote0>>

\* the move request fails in the transport: nothing catches the error
MoveFail ==
    /\ MoveAwaited
    /\ Finish(Event("res", "move", <<>>, <<>>, "error"),
              <<ErrorLine("transport")>>, "failed", MoveFailure)
    /\ UNCHANGED <<call, client, returned, remote, remote0>>

\* serializeJcrValue(value): the text written for the value
SerializeJcrValue ==
    /\ status = "idle"
    /\ call.op = "serializeJcrValue"
    /\ returned' = serializeJcrValue(call.value)
    /\ status' = "serialized"
    /\ UNCHANGED <<call, client, remote, remote0, stack, inflight, changes, thrown, messages, trace>>

\* unserializeJcrValue(str).value, of the text written and the type of the value
UnserializeJcrValue ==
    /\ status = "serialized"
    /\ call.op = "serializeJcrValue"
    /\ returned' = unserializeJcrValue(Tagged(call.tag, returned)).value
    /\ status' = "unserialized"
    /\ UNCHANGED <<call, client, remote, remote0, stack, inflight, changes, thrown, messages, trace>>

\* jcrToLocalName(name): the element name written for a node name
JcrToLocalName ==
    /\ status = "idle"
    /\ call.op = "jcrToLocalName"
    /\ returned' = jcrToLocalName(call.name)
    /\ status' = "encoded"
    /\ UNCHANGED <<call, client, remote, remote0, stack, inflight, changes, thrown, messages, trace>>

\* localNameToJcr(name), of the element name written
LocalNameToJcr ==
    /\ status = "encoded"
    /\ call.op = "jcrToLocalName"
    /\ returned' = localNameToJcr(returned)
    /\ status' = "decoded"
    /\ UNCHANGED <<call, client, remote, remote0, stack, inflight, changes, thrown, messages, trace>>

\* jcrToFileSystem(path): of a remote path, or of the remote path that
\* fileSystemToJcr gave for a local one
JcrToFileSystem ==
    /\ \/ call.op = "jcrToFileSystem" /\ status = "idle" /\ status' = "converted"
          /\ returned' = jcrToFileSystem(call.path)
       \/ call.op = "fileSystemToJcr" /\ status = "converted" /\ status' = "restored"
          /\ returned' = jcrToFileSystem(returned)
    /\ UNCHANGED <<call, client, remote, remote0, stack, inflight, changes, thrown, messages, trace>>

\* fileSystemToJcr(path): of a local path, or of the local path that
\* jcrToFileSystem gave for a remote one
FileSystemToJcr ==
    /\ \/ call.op = "fileSystemToJcr" /\ status = "idle" /\ status' = "converted"
          /\ returned' = fileSystemToJcr(call.path)
       \/ call.op = "jcrToFileSystem" /\ status = "converted" /\ status' = "restored"
          /\ returned' = fileSystemToJcr(returned)
    /\ UNCHANGED <<call, client, remote, remote0, stack, inflight, changes, thrown, messages, trace>>

\* convertToJcrContentXML(properties): the document written for the tree
ConvertToJcrContentXML ==
    /\ status = "idle"
    /\ call.op = "convertToJcrContentXML"
    /\ returned' = convertToJcrContentXML(call.properties)
    /\ status' = "written"
    /\ UNCHANGED <<call, client, remote, remote0, stack, inflight, changes, thrown, messages, trace>>

\* parseJcrContentXML(content), of the document written
ParseJcrContentXML ==
    /\ status = "written"
    /\ call.op = "convertToJcrContentXML"
    /\ returned' = parseJcrContentXML(returned)
    /\ status' = "parsed"
    /\ UNCHANGED <<call, client, remote, remote0, stack, inflight, changes, thrown, messages, trace>>

\* fetchJcrNode(jcrPath, mode, depth) asks for the node's JSON
InvokeFetchJcrNode ==
    /\ status = "idle"
    /\ call.op = "fetchJcrNode"
    /\ status' = "running"
    /\ trace' = <<Event("req", "fetch", <<>>,
                        <<Field("url", JsonSuffix(RequestDepth(call.mode, call.depth)))>>, "")>>
    /\ UNCHANGED <<call, client, returned, remote, remote0, stack, inflight, changes, thrown, messages>>

\* client.fetchJSON resolves; the data is filtered by the mode and returned
FetchJcrNodeOk ==
    /\ status = "running"
    /\ call.op = "fetchJcrNode"
    /\ \E depth \in ServedDepths(RequestDepth(call.mode, call.depth)) :
            returned' = Obj(Filtered(JsonAtDepth(remote, depth), call.mode))
    /\ status' = "done"
    /\ trace' = Append(trace, Event("res", "fetch", <<>>, <<>>, "ok"))
    /\ UNCHANGED <<call, client, remote, remote0, stack, inflight, changes, thrown, messages>>

\* client.fetchJSON rejects; fetchJcrNode rejects with the same error
FetchJcrNodeFail ==
    /\ status = "running"
    /\ call.op = "fetchJcrNode"
    /\ status' = "failed"
    /\ thrown' = "FetchError"
    /\ trace' = Append(trace, Event("res", "fetch", <<>>, <<>>, "error"))
    /\ UNCHANGED <<call, client, returned, remote, remote0, stack, inflight, changes, messages>>

Fetching == call.op = "fetch" /\ status = "running"

\* client.fetch(url, options), the options without x-retry
InvokeFetch ==
    /\ status = "idle"
    /\ call.op = "fetch"
    /\ status' = "running"
    /\ EnterFetch(<<>>, <<>>, client, FALSE)
    /\ UNCHANGED <<call, returned, remote, remote0, inflight, changes, thrown, messages>>

\* setCredential(host, cred) answers the pending request: the first request is
\* sent with the new header, or canFail resolves and fetch calls itself with x-retry
CredentialProvided ==
    /\ Fetching
    /\ client.pending
    /\ \E header \in AuthHeaders :
            IF Top(stack).pc = "requestCredential"
            THEN /\ stack' = SetTop(stack, FetchFrame("response", header, Top(stack).retry))
                 /\ trace' = Append(trace, HttpRequest(header, Top(stack).retry))
                 /\ client' = [authHeaders |-> header, pending |-> FALSE]
            ELSE EnterFetch(stack, trace, [authHeaders |-> header, pending |-> FALSE], TRUE)
    /\ UNCHANGED <<call, returned, remote, remote0, inflight, changes, status, thrown, messages>>

\* event.cancel() rejects the pending request: the await of the first request
\* throws, or canFail resolves with undefined and the 401 is thrown again
CredentialCancelled ==
    /\ Fetching
    /\ client.pending
    /\ FetchRejects(trace, [client EXCEPT !.pending = FALSE],
                    IF Top(stack).pc = "requestCredential" THEN "Cancelled" ELSE "FetchError")
    /\ UNCHANGED <<call, returned, remote, remote0, inflight, changes, messages>>

\* setCredential(host, cred) by another party while the request is in flight
CredentialChanged ==
    /\ Fetching
    /\ ~client.pending
    /\ Top(stack).pc = "response"
    /\ \E header \in AuthHeaders \ {client.authHeaders} :
            client' = [client EXCEPT !.authHeaders = header]
    /\ UNCHANGED <<call, returned, remote, remote0, stack, inflight, changes, status, thrown,
                   messages, trace>>

\* the request is answered with the body
ResponseOk ==
    /\ Fetching
    /\ Top(stack).pc = "response"
    /\ returned' = Str("body")
    /\ status' = "done"
    /\ stack' = <<>>
    /\ trace' = Append(trace, HttpResponse(200))
    /\ UNCHANGED <<call, client, remote, remote0, inflight, changes, thrown, messages>>

\* the request is answered with 401: unless the options carry x-retry, fetch
\* calls itself with x-retry when the header of the host has changed meanwhile,
\* and asks for a credential else; with x-retry the error is thrown
ResponseUnauthorized ==
    /\ Fetching
    /\ Top(stack).pc = "response"
    /\ IF MayRetry(Top(stack))
       THEN /\ IF client.authHeaders # Top(stack).header
               THEN EnterFetch(SetTop(stack, FetchFrame("fetch", Top(stack).header, FALSE)),
                               Append(trace, HttpResponse(401)), client, TRUE)
               ELSE /\ stack' = SetTop(stack, FetchFrame("failedCredential",
                                                         Top(stack).header, FALSE))
                    /\ trace' = Append(trace, HttpResponse(401))
                                    \o Fired(client, "onDidFailAuthentication")
                    /\ client' = [client EXCEPT !.pending = TRUE]
            /\ UNCHANGED <<status, thrown>>
       ELSE FetchRejects(Append(trace, HttpResponse(401)), client, "FetchError")
    /\ UNCHANGED <<call, returned, remote, remote0, inflight, changes, messages>>

\* the request fails otherwise: a status of 500 or more is thrown as a plain
\* Error, any other as the FetchError it is
ResponseError ==
    /\ Fetching
    /\ Top(stack).pc = "response"
    /\ \E statusCode \in {404, 500} :
            FetchRejects(Append(trace, HttpResponse(statusCode)), client,
                         IF statusCode >= 500 THEN "Error" ELSE "FetchError")
    /\ UNCHANGED <<call, returned, remote, remote0, inflight, changes, messages>>

FetchingAll == call.op = "fetches" /\ status = "running"

\* count calls of client.fetch for one host are made
InvokeFetches ==
    /\ status = "idle"
    /\ call.op = "fetches"
    /\ status' = "running"
    /\ stack' = [i \in 1..call.count |-> FetchFrame("start", "", FALSE)]
    /\ UNCHANGED <<call, client, returned, remote, remote0, inflight, changes, thrown,
                   messages, trace>>

\* one of them runs up to its first await: requestCredential when the host has
\* no header, the request else
FetchStarts ==
    /\ FetchingAll
    /\ \E i \in 1..Len(stack) :
        /\ stack[i].pc = "start"
        /\ IF client.authHeaders = ""
           THEN /\ stack' = [stack EXCEPT ![i] = FetchFrame("requestCredential", "", FALSE)]
                /\ trace' = trace \o Fired(client, "onDidRequestAuthentication")
                /\ client' = [client EXCEPT !.pending = TRUE]
           ELSE /\ stack' = [stack EXCEPT
                                ![i] = FetchFrame("response", client.authHeaders, FALSE)]
                /\ trace' = Append(trace, HttpRequest(client.authHeaders, FALSE))
                /\ UNCHANGED client
    /\ UNCHANGED <<call, returned, remote, remote0, inflight, changes, status, thrown, messages>>

\* setCredential(host, cred) while a request for a credential is pending: the
\* header is stored, the promise resolves, its finally callback deletes
\* this.pending[host], and every fetch that awaited it goes on
SetCredential ==
    /\ FetchingAll
    /\ client.pending
    /\ \E header \in AuthHeaders :
        /\ client' = [authHeaders |-> header, pending |-> FALSE]
        /\ stack' = [i \in 1..Len(stack) |-> AfterCredential(stack[i], header)]
        /\ trace' = Append(trace, CredentialEvent("setCredential", header))
                        \o RequestsOf(Resumed(stack, header))
    /\ UNCHANGED <<call, returned, remote, remote0, inflight, changes, status, thrown, messages>>

\* event.cancel(): the promise rejects, this.pending[host] is deleted, and
\* every fetch that awaited it fails
CancelCredential ==
    /\ FetchingAll
    /\ client.pending
    /\ client' = [client EXCEPT !.pending = FALSE]
    /\ stack' = [i \in 1..Len(stack) |-> AfterCancel(stack[i])]
    /\ status' = StatusOf([i \in 1..Len(stack) |-> AfterCancel(stack[i])])
    /\ trace' = Append(trace, CredentialEvent("cancel", ""))
    /\ UNCHANGED <<call, returned, remote, remote0, inflight, changes, thrown, messages>>

\* the request of one fetch is answered with the body, or fails with a status
\* that is not 401
FetchAnswered ==
    /\ FetchingAll
    /\ \E i \in 1..Len(stack), statusCode \in {200, 500} :
        /\ stack[i].pc = "response"
        /\ stack' = [stack EXCEPT ![i].pc = IF statusCode = 200 THEN "done" ELSE "failed"]
        /\ status' = StatusOf([stack EXCEPT
                                ![i].pc = IF statusCode = 200 THEN "done" ELSE "failed"])
        /\ trace' = Append(trace, HttpResponse(statusCode))
    /\ UNCHANGED <<call, client, returned, remote, remote0, inflight, changes, thrown, messages>>

\* the request of one fetch is answered with 401
FetchUnauthorized ==
    /\ FetchingAll
    /\ \E i \in 1..Len(stack) :
        /\ stack[i].pc = "response"
        /\ IF ~MayRetry(stack[i])
           THEN /\ stack' = [stack EXCEPT ![i].pc = "failed"]
                /\ status' = StatusOf([stack EXCEPT ![i].pc = "failed"])
                /\ trace' = Append(trace, HttpResponse(401))
                /\ UNCHANGED client
           ELSE IF client.authHeaders # stack[i].header
           THEN /\ stack' = [stack EXCEPT
                                ![i] = FetchFrame("response", client.authHeaders, TRUE)]
                /\ trace' = trace \o <<HttpResponse(401), HttpRequest(client.authHeaders, TRUE)>>
                /\ UNCHANGED <<client, status>>
           ELSE /\ stack' = [stack EXCEPT ![i].pc = "failedCredential"]
                /\ trace' = Append(trace, HttpResponse(401))
                                \o Fired(client, "onDidFailAuthentication")
                /\ client' = [client EXCEPT !.pending = TRUE]
                /\ UNCHANGED status
    /\ UNCHANGED <<call, returned, remote, remote0, inflight, changes, thrown, messages>>

-----------------------------------------------------------------------------
(* Workspace synchronisation: handleLocalChange and doForEachHost *)

\* basename(localPath.path)
BaseName(path) == path[Len(path)]

\* replace(/\/.content.xml$/, '')
WithoutContentXml(path) ==
    IF Len(path) >= 2 /\ path[Len(path)] = ContentXml /\ path[Len(path) - 1] = "/"
    THEN SubSeq(path, 1, Len(path) - 2)
    ELSE path

\* resolveRemotePath of a local path below the jcr root of a project, given
\* relative to that root
resolveRemotePath(path) == fileSystemToJcr(WithoutContentXml(path))

\* the setting is read at once, whatever the file
DeletesRemoteAlways(c) == TRUE

\* config.deleteRemoteFiles
DeletesRemote(c) == c.deleteRemoteFiles

\* whether handleLocalChange calls doForEachHost
SyncsHosts(c) ==
    /\ c.inProject
    /\ IF BaseName(c.localPath) = ContentXml THEN ~c.deleted
       ELSE IF c.deleted THEN DeletesRemote(c)
       ELSE c.isFile

\* node[PROP.jcrPrimaryType] === NODE_TYPE.ntFile
IsNtFile(node) == node.t = "node" /\ Get(node.n, jcrPrimaryType) = Str("nt:file")

\* what the callback of doForEachHost asks of the repository for the node
\* fetched, "" when it asks nothing
SyncRequest(c, node) ==
    IF BaseName(c.localPath) = ContentXml THEN "saveJcrProperties"
    ELSE IF c.deleted THEN (IF IsNtFile(node) THEN "delete" ELSE "")
    ELSE IF node.t # "node" \/ IsNtFile(node) THEN "file"
    ELSE ""

\* the line the callback writes before it
SyncLine(request) ==
    CASE request = "saveJcrProperties" -> "sync: Updating properties of"
      [] request = "delete" -> "sync: Deleting"
      [] request = "file" -> "sync: Updating"

\* the form of the request; saveJcrProperties is the operation modelled above,
\* called with { deleteProps: true }
SyncForm(request) ==
    CASE request = "saveJcrProperties" -> <<Field("deleteProps", "true")>>
      [] request = "delete" -> <<Field(":operation", "delete")>>
      [] request = "file" -> <<Field("*@TypeHint", "nt:file"), Field("*", "data")>>

\* the node after the request has been carried out
SyncedNode(request, node) ==
    CASE request = "saveJcrProperties" -> node
      [] request = "delete" -> Undefined
      [] request = "file" -> FileNode

Syncing == call.op = "handleLocalChange" /\ status = "running"

\* handleLocalChange(localPath, deleted) for one host of config.hosts: it
\* returns at once, or doForEachHost fetches the node at the remote path
InvokeHandleLocalChange ==
    /\ status = "idle"
    /\ call.op = "handleLocalChange"
    /\ IF SyncsHosts(call)
       THEN /\ status' = "running"
            /\ stack' = <<[pc |-> "node"]>>
            /\ trace' = <<Event("req", "fetch", resolveRemotePath(call.localPath),
                                <<Field("url", JsonSuffix(RequestDepth(FetchMode.Normal, -1)))>>,
                                "")>>
       ELSE /\ status' = "done"
            /\ UNCHANGED <<stack, trace>>
    /\ UNCHANGED <<call, client, returned, remote, remote0, inflight, changes, thrown, messages>>

\* canFail(fetchJcrNode(jcrPath)) resolves with the node, or with undefined when
\* the fetch fails; the callback sends its request or returns
SyncNodeFetched ==
    /\ Syncing
    /\ Top(stack).pc = "node"
    /\ \E node \in {remote, Undefined} :
            IF SyncRequest(call, node) = ""
            THEN /\ status' = "done"
                 /\ stack' = <<>>
                 /\ trace' = Append(trace, Event("res", "fetch", <<>>, <<>>, node.t))
                 /\ UNCHANGED messages
            ELSE /\ stack' = <<[pc |-> SyncRequest(call, node)]>>
                 /\ trace' = trace \o
                        <<Event("res", "fetch", <<>>, <<>>, node.t),
                          Event("req", SyncRequest(call, node),
                                resolveRemotePath(call.localPath),
                                SyncForm(SyncRequest(call, node)), "")>>
                 /\ messages' = Append(messages, SyncLine(SyncRequest(call, node)))
                 /\ UNCHANGED status
    /\ UNCHANGED <<call, client, returned, remote, remote0, inflight, changes, thrown>>

\* the operation the callback awaits resolves
SyncRequestOk ==
    /\ Syncing
    /\ Top(stack).pc # "node"
    /\ remote' = SyncedNode(Top(stack).pc, remote)
    /\ status' = "done"
    /\ stack' = <<>>
    /\ trace' = Append(trace, Event("res", Top(stack).pc, <<>>, <<>>, "ok"))
    /\ UNCHANGED <<call, client, returned, remote0, inflight, changes, thrown, messages>>

\* the operation rejects: handleError shows the message and resolves
SyncRequestFail ==
    /\ Syncing
    /\ Top(stack).pc # "node"
    /\ status' = "done"
    /\ stack' = <<>>
    /\ trace' = Append(trace, Event("res", Top(stack).pc, <<>>, <<>>, "error"))
    /\ messages' = Append(messages, ErrorLine("Unable to"))
    /\ UNCHANGED <<call, client, returned, remote, remote0, inflight, changes, thrown>>

Next ==
    \/ InvokeSaveJcrProperties
    \/ FetchOk
    \/ FetchNotFound
    \/ FetchFail
    \/ PostOk
    \/ PostGarbled
    \/ PostFail
    \/ InvokeDeleteJcrNode
    \/ DeleteOk
    \/ DeleteNoChange
    \/ DeleteFail
    \/ InvokeSaveJcrFile
    \/ FileOk
    \/ FileNoChange
    \/ FileFail
    \/ InvokeMoveJcrNode
    \/ MoveOk
    \/ ExternalWrite
    \/ MoveFail
    \/ SerializeJcrValue
    \/ UnserializeJcrValue
    \/ JcrToLocalName
    \/ LocalNameToJcr
    \/ JcrToFileSystem
    \/ FileSystemToJcr
    \/ ConvertToJcrContentXML
    \/ ParseJcrContentXML
    \/ InvokeFetchJcrNode
    \/ FetchJcrNodeOk
    \/ FetchJcrNodeFail
    \/ InvokeFetch
    \/ CredentialProvided
    \/ CredentialCancelled
    \/ CredentialChanged
    \/ ResponseOk
    \/ ResponseUnauthorized
    \/ ResponseError
    \/ InvokeFetches
    \/ FetchStarts
    \/ SetCredential
    \/ CancelCredential
    \/ FetchAnswered
    \/ FetchUnauthorized
    \/ InvokeHandleLocalChange
    \/ SyncNodeFetched
    \/ SyncRequestOk
    \/ SyncRequestFail

Spec == Init /\ [][Next]_vars

-----------------------------------------------------------------------------
(* Vocabulary of the properties *)

Saving == call.op = "saveJcrProperties"

\* the names the call ignores
IgnoredNames ==
    {internalProps[i] : i \in 1..Len(internalProps)}
        \cup {call.options.ignoreProps[i] : i \in 1..Len(call.options.ignoreProps)}

\* a key that is neither ignored nor ':'-prefixed
Plain(k) == ~IsMeta(k) /\ k \notin IgnoredNames

PlainKeySet(tr) == {k \in KeySet(tr) : Plain(k)}

\* the names of the child nodes of a tree, in their order
ChildKeys(tr) == Keys(SelectSeq(tr, LAMBDA en : en.v.t = "node"))

IsReq(e, kind) == e.dir = "req" /\ e.kind = kind

IsRes(e, kind) == e.dir = "res" /\ e.kind = kind

\* the property names a form operates on
FieldBases(form) == {BaseOfField(form[j].name) : j \in 1..Len(form)} \ {""}

\* the texts a form carries for a desired value that is no node
TextsOf(v) ==
    IF v.t = "array" THEN [j \in 1..Len(v.e) |-> formatJcrValue(v.e[j])]
    ELSE <<formatJcrValue(v)>>

\* the remote value r is the desired value v, up to the type a text is stored with;
\* a property with no value at all counts as the empty array
SameValue(r, v) ==
    IF v.t = "array"
    THEN \/ v.e = <<>> /\ r.t = "none"
         \/ r.t = "array" /\ TextsOf(r) = TextsOf(v)
    ELSE r.t \notin {"none", "array", "node"} /\ formatJcrValue(r) = formatJcrValue(v)

RECURSIVE Matches(_, _)
\* at every level, every plain property of the desired tree has its value on the node
Matches(node, desired) ==
    /\ node.t = "node"
    /\ \A i \in 1..Len(desired) :
        Plain(desired[i].k) =>
            IF desired[i].v.t = "node"
            THEN Matches(Get(node.n, desired[i].k), desired[i].v.n)
            ELSE SameValue(Get(node.n, desired[i].k), desired[i].v)

RECURSIVE SameTree(_, _)
\* the two trees hold the same plain keys with the same values, the child nodes
\* in the same order, at every level
SameTree(cur, des) ==
    /\ PlainKeySet(cur) = PlainKeySet(des)
    /\ ChildKeys(cur) = ChildKeys(des)
    /\ \A k \in PlainKeySet(des) :
        IF Get(des, k).t = "node"
        THEN Get(cur, k).t = "node" /\ SameTree(Get(cur, k).n, Get(des, k).n)
        ELSE Get(cur, k) = Get(des, k)

\* the fetch of the root level was answered with the node
RootFetched == Len(trace) >= 2 /\ IsRes(trace[2], "fetch") /\ trace[2].result = "ok"

\* the write of the root level was sent
RootPosted == Len(trace) >= 3 /\ IsReq(trace[3], "post") /\ trace[3].path = <<>>

-----------------------------------------------------------------------------
(* Properties of saveJcrProperties *)

\* C1: when saveJcrProperties has completed without error, every property of
\* the desired tree that is neither ignored nor ':'-prefixed has the desired
\* value on the remote node, at every level, whatever the remote held before.
C1_RemoteMatchesDesired ==
    (Saving /\ status = "done") => Matches(remote, call.desired)

\* C1, the run that refutes it: the remote holds the array ["a"], the desired
\* value is the scalar "a"; the call completes and the remote still holds the array.
C1_ArrayKeptForScalar ==
    /\ Saving /\ status = "done"
    /\ remote0.t = "node" /\ remote.t = "node"
    /\ Get(remote0.n, "tags") = Arr(<<Str("a")>>)
    /\ Get(call.desired, "tags") = Str("a")
    /\ Get(remote.n, "tags") = Arr(<<Str("a")>>)

\* C2: when the remote tree equals the desired tree at every level, the only
\* requests saveJcrProperties sends are fetches: no POST at any level.
C2_NoWriteWhenEqual ==
    (Saving /\ remote0.t = "node" /\ SameTree(remote0.n, call.desired)) =>
        \A i \in 1..Len(trace) : trace[i].dir = "req" => trace[i].kind = "fetch"

\* C2, its case: equal trees with a child and a grandchild, all three levels
\* fetched, and the call completed.
C2_EqualTreesReconciled ==
    /\ Saving /\ status = "done"
    /\ remote0.t = "node" /\ SameTree(remote0.n, call.desired)
    /\ \E i \in 1..Len(trace) : IsRes(trace[i], "fetch") /\ Len(trace[i].path) = 2
    /\ remote = remote0

\* the trees differ in the property "tags" only, which both hold, and not by
\* the type of a scalar alone
OnlyTagsDiffers ==
    /\ remote0.t = "node"
    /\ Has(remote0.n, "tags") /\ Has(call.desired, "tags")
    /\ Get(remote0.n, "tags") # Get(call.desired, "tags")
    /\ (Get(remote0.n, "tags").t # "array" /\ Get(call.desired, "tags").t # "array")
            => formatJcrValue(Get(remote0.n, "tags")) # formatJcrValue(Get(call.desired, "tags"))
    /\ \A k \in (KeySet(remote0.n) \cup KeySet(call.desired)) \ {"tags"} :
            Get(remote0.n, k) = Get(call.desired, k)

\* C3: when the desired tree differs from the remote tree in exactly one field,
\* the mutation sent operates on that field and on no other property.
C3_OneFieldOperation ==
    (Saving /\ OnlyTagsDiffers /\ RootFetched) =>
        (RootPosted /\ FieldBases(trace[3].form) = {"tags"})

\* C3, the run that refutes it: only "tags" differs, an array against a scalar
\* of the same text, and the call completes without any write.
C3_NoOperationForArrayAgainstScalar ==
    /\ Saving /\ status = "done" /\ OnlyTagsDiffers
    /\ Get(remote0.n, "tags") = Arr(<<Str("a")>>)
    /\ Get(call.desired, "tags") = Str("a")
    /\ Len(trace) = 2

\* C4: with deleteProps false, no write carries an operation for a key that
\* the fetched node holds and the desired tree of that level does not.
C4_AbsentPropertyUntouched ==
    (Saving /\ ~call.options.deleteProps) =>
        \A i \in 1..Len(trace) :
            IsReq(trace[i], "post") =>
                \A k \in KeySet(trace[i].cur) \ KeySet(trace[i].des) :
                    k \notin FieldBases(trace[i].form)

\* C4, its case: deleteProps is false, a child level was written whose remote
\* node holds a title the desired child lacks, and the title is still there.
C4_AbsentTitleKept ==
    /\ Saving /\ status = "done" /\ ~call.options.deleteProps
    /\ \E i \in 1..Len(trace) :
        /\ IsReq(trace[i], "post") /\ Len(trace[i].path) = 1
        /\ "title" \in KeySet(trace[i].cur) \ KeySet(trace[i].des)
        /\ Get(NodeAt(remote, trace[i].path).n, "title") = Str("a")

\* the remote "tags" is a non-empty array and the desired "tags" is the empty array
TagsEmptied ==
    /\ remote0.t = "node"
    /\ Get(remote0.n, "tags").t = "array" /\ Get(remote0.n, "tags").e # <<>>
    /\ Get(call.desired, "tags") = Arr(<<>>)

\* C5: a desired empty array against a non-empty remote array is sent as a
\* removal patch: '@Patch' = 'true' and '-' + element for each remote element,
\* and no element as a plain value.
C5_RemovalPatch ==
    (Saving /\ TagsEmptied /\ RootFetched) =>
        /\ RootPosted
        /\ FieldValues(trace[3].form, "tags@Patch") = <<"true">>
        /\ FieldValues(trace[3].form, "tags") =
                [j \in 1..Len(Get(remote0.n, "tags").e) |->
                    "-" \o Get(remote0.n, "tags").e[j].s]

\* C5, its case: the two elements "a", "b" were removed by the patch.
C5_TwoElementsRemoved ==
    /\ Saving /\ status = "done" /\ TagsEmptied
    /\ Get(remote0.n, "tags") = Arr(<<Str("a"), Str("b")>>)
    /\ RootPosted /\ FieldValues(trace[3].form, "tags") = <<"-a", "-b">>
    /\ Get(remote.n, "tags") = Arr(<<>>)

\* the remote children are [a, b] and the desired children are [b, a]
SwappedChildren ==
    /\ remote0.t = "node"
    /\ ChildKeys(remote0.n) = <<"a", "b">>
    /\ ChildKeys(call.desired) = <<"b", "a">>

\* the positions of the trace at which the write of child c is sent
PostsTo(c) == {i \in 1..Len(trace) : IsReq(trace[i], "post") /\ trace[i].path = <<c>>}

\* C6, as the code has it: with desired children [b, a] against remote [a, b],
\* the child writes go out in the desired order, b first and a after the write
\* of b was answered, each carrying its index among the desired children as
\* ':order' ("0" for b, "1" for a); both are sent when the call completes.
C6_WritesInDesiredOrder ==
    (Saving /\ SwappedChildren) =>
        /\ \A i \in PostsTo("b") : FieldValues(trace[i].form, ":order") = <<"0">>
        /\ \A i \in PostsTo("a") :
            /\ FieldValues(trace[i].form, ":order") = <<"1">>
            /\ \E j \in PostsTo("b") : \E h \in (j + 1)..(i - 1) :
                    IsRes(trace[h], "post") /\ trace[h].path = <<"b">>
                        /\ trace[h].result = "ok"
        /\ status = "done" => PostsTo("a") # {} /\ PostsTo("b") # {}

\* C6, its case: the call completed and the remote children are now [b, a].
C6_ChildrenSwapped ==
    /\ Saving /\ SwappedChildren /\ status = "done"
    /\ PostsTo("a") # {} /\ PostsTo("b") # {}
    /\ ChildKeys(remote.n) = <<"b", "a">>

\* C6, as it is worded: with desired children [b, a] against remote [a, b],
\* the write of child a is sent before the write of child b.
C6_WritesAThenB ==
    (Saving /\ SwappedChildren /\ status = "done") =>
        \E i \in PostsTo("a") : \E j \in PostsTo("b") : i < j

\* C7: a 404 answer to the fetch of any level is followed by the write of that
\* level, computed against the empty tree and carrying every plain desired
\* property that is no child node; any other failure of a fetch is the last
\* event of the call, which is rejected with an OperationError.
C7_NotFoundIsEmptyTree ==
    Saving =>
        \A i \in 1..Len(trace) :
            /\ (IsRes(trace[i], "fetch") /\ trace[i].result = "404") =>
                /\ i < Len(trace)
                /\ IsReq(trace[i + 1], "post")
                /\ trace[i + 1].path = trace[i].path
                /\ trace[i + 1].cur = <<>>
                /\ \A k \in PlainKeySet(trace[i + 1].des) :
                    Get(trace[i + 1].des, k).t # "node" =>
                        FieldValues(trace[i + 1].form, k)
                            = TextsOf(Get(trace[i + 1].des, k))
            /\ (IsRes(trace[i], "fetch") /\ trace[i].result = "error") =>
                /\ i = Len(trace)
                /\ status = "failed" /\ thrown = "OperationError"

\* C7, its case: the root exists, the fetch of a child is answered 404, the
\* child is written and the call completes with the child on the remote.
C7_MissingChildCreated ==
    /\ Saving /\ status = "done" /\ remote0.t = "node"
    /\ \E i \in 1..Len(trace) :
        /\ IsRes(trace[i], "fetch") /\ trace[i].result = "404"
        /\ Len(trace[i].path) = 1
        /\ NodeAt(remote0, trace[i].path).t = "none"
        /\ NodeAt(remote, trace[i].path).t = "node"

\* a response that makes the awaiting code throw
Failing(e) == e.dir = "res" /\ e.result \in {"error", "garbled", "nochange"}

\* C8: a failed request rejects saveJcrProperties with an OperationError; after
\* the first failure no request is sent at all (no retry, nothing for the
\* remaining siblings, nothing that undoes a write), the only events being the
\* answers to deletes already in flight; and a title written by an answered
\* write is still on the remote.
C8_FirstFailureSurfaces ==
    Saving =>
        \A i \in 1..Len(trace) :
            /\ Failing(trace[i]) =>
                /\ status = "failed" /\ thrown = "OperationError"
                /\ \A j \in (i + 1)..Len(trace) : IsRes(trace[j], "delete")
            /\ (IsRes(trace[i], "post") /\ trace[i].result = "ok"
                    /\ HasField(trace[i].form, "title")) =>
                JsString(Get(NodeAt(remote, trace[i].path).n, "title"))
                    = FieldValues(trace[i].form, "title")[1]

\* C8, its case: desired children [a, b]; the title of a was written, then the
\* fetch of the grandchild below a failed; the call is rejected, the title of a
\* is in place and no request was sent for b.
C8_SiblingNeverRequested ==
    /\ Saving /\ status = "failed"
    /\ ChildKeys(call.desired) = <<"a", "b">>
    /\ Failing(trace[Len(trace)]) /\ trace[Len(trace)].path = <<"a", "g">>
    /\ \E i \in 1..Len(trace) :
        /\ IsRes(trace[i], "post") /\ trace[i].result = "ok" /\ trace[i].path = <<"a">>
        /\ FieldValues(trace[i].form, "title") = <<"b">>
    /\ Get(NodeAt(remote, <<"a">>).n, "title") = Str("b")
    /\ \A i \in 1..Len(trace) : trace[i].path # <<"b">>

-----------------------------------------------------------------------------
(* Properties of the four operations *)

\* a request of the operation failed in the transport
TransportFailed == \E i \in 1..Len(trace) : trace[i].dir = "res" /\ trace[i].result = "error"

\* the lines an OperationError writes to the output channel
OperationErrorLines ==
    {ErrorLine("Unable to update"), ErrorLine("Unable to delete"),
     ErrorLine("Destination is on different server than source")}

\* C9: when the transport call of saveJcrProperties, saveJcrFile, deleteJcrNode
\* or moveJcrNode fails, the operation is rejected with an OperationError whose
\* message was written to the output channel.
C9_TransportFailureWrapped ==
    (status = "failed" /\ TransportFailed) =>
        /\ thrown = "OperationError"
        /\ \E i \in 1..Len(messages) : messages[i] \in OperationErrorLines

\* C9, the run that refutes it: the post of moveJcrNode fails and the promise
\* is rejected with the error of the transport, no OperationError being logged.
C9_MoveFailsUnwrapped ==
    /\ call.op = "moveJcrNode" /\ status = "failed" /\ TransportFailed
    /\ thrown # "OperationError"
    /\ \A i \in 1..Len(messages) : messages[i] \notin OperationErrorLines

\* C10: saveJcrFile and deleteJcrNode are rejected with a logged OperationError
\* when the response lists no change, and complete only after a response that
\* lists at least one.
C10_ChangeMandatory ==
    call.op \in {"saveJcrFile", "deleteJcrNode"} =>
        /\ (trace # <<>> /\ trace[Len(trace)].result = "nochange") =>
            /\ status = "failed" /\ thrown = "OperationError"
            /\ messages[Len(messages)] \in OperationErrorLines
        /\ status = "done" => trace[Len(trace)].result = "ok"

\* C10, its case: the upload of saveJcrFile was answered without any change
\* and the call was rejected.
C10_UploadWithoutChange ==
    /\ call.op = "saveJcrFile" /\ status = "failed"
    /\ IsRes(trace[Len(trace)], "file") /\ trace[Len(trace)].result = "nochange"
    /\ thrown = "OperationError"

\* the requests of the trace
Requests == {i \in 1..Len(trace) : trace[i].dir = "req"}

\* C11: moveJcrNode between two servers (another scheme or another authority)
\* is rejected with an error without any request being sent; a move within one
\* server sends exactly one request, the move.
C11_CrossHostMoveRejected ==
    (call.op = "moveJcrNode" /\ status # "idle") =>
        IF call.src # call.dst
        THEN status = "failed" /\ thrown = "OperationError" /\ trace = <<>>
        ELSE Cardinality(Requests) = 1 /\ IsReq(trace[1], "move")

\* C11, its case: source on http, destination on https of the same authority,
\* the call rejected and nothing sent.
C11_OtherSchemeRejected ==
    /\ call.op = "moveJcrNode" /\ status = "failed"
    /\ call.src = "http://localhost:4502" /\ call.dst = "https://localhost:4502"
    /\ trace = <<>>
    /\ messages = <<ErrorLine("Destination is on different server than source")>>

\* the codec has written and read back the value of the call
ReadBack == call.op = "serializeJcrValue" /\ status = "unserialized"

\* C12: a scalar value of one of the five value types, serialized and then
\* deserialized under its type, comes back as the same value.
C12_ScalarRoundTrip ==
    (ReadBack /\ call.value.t # "array") => returned = call.value

\* C13: the empty array comes back from the codec as the empty array, and the
\* array [''] as [''], so that the two stay apart.
C13_ArrayRoundTrip ==
    (ReadBack /\ call.value \in {CArr(<<>>), CArr(<<CStr(<<>>)>>)}) => returned = call.value

\* C12, its case: the string '[a' is written as '\$1a' and read back as that
\* text, its first character lost.
C12_HeadLost ==
    /\ ReadBack
    /\ call.value = CStr(<<"[", "a">>)
    /\ returned = CStr(<<"\\", "$", "1", "a">>)

\* C13, its case: the empty array is written as '[]' and read back as [''],
\* the value that '[\0]' is read back as.
C13_EmptyArrayReadAsEmptyString ==
    /\ ReadBack
    /\ call.value = CArr(<<>>)
    /\ returned = CArr(<<CStr(<<>>)>>)
    /\ returned = unserializeJcrValue(serializeJcrValue(CArr(<<CStr(<<>>)>>))).value

\* C14: a node name written as an element name by jcrToLocalName and read back
\* by localNameToJcr is the node name again, whether it holds colons, leading
\* digits, hyphens or spaces, or looks like an escape '_xHHHH_' itself.
C14_NameRoundTrip ==
    (call.op = "jcrToLocalName" /\ status = "decoded") => returned = call.name

\* C14, its case: the name 'a ' is written as 'a_x20_', which holds no escape
\* of four digits and is read back unchanged.
C14_SpaceNotRestored ==
    /\ call.op = "jcrToLocalName" /\ status = "decoded"
    /\ call.name = <<"a", " ">>
    /\ jcrToLocalName(call.name) = <<"a", "_", "x", "2", "0", "_">>
    /\ returned = <<"a", "_", "x", "2", "0", "_">>

\* C16: a remote path turned into a local path and back is the remote path
\* again, and a local path turned into a remote path and back is the local
\* path again.
C16_PathRoundTrip ==
    (call.op \in {"jcrToFileSystem", "fileSystemToJcr"} /\ status = "restored") =>
        returned = call.path

\* C16, its case: the remote path '/a:_' is mirrored as '/_a__', which is read
\* back as '/a_:'.
C16_UnderscoreTakenIntoPrefix ==
    /\ call.op = "jcrToFileSystem" /\ status = "restored"
    /\ call.path = <<"/", "a", ":", "_">>
    /\ jcrToFileSystem(call.path) = <<"/", "_", "a", "_", "_">>
    /\ returned = <<"/", "a", "_", ":">>

RECURSIVE SameProperties(_, _)
\* two property trees with the same keys, and under each key the same value of
\* the same type or child trees that are the same in turn
SameProperties(a, b) ==
    /\ KeySet(a) = KeySet(b)
    /\ \A k \in KeySet(a) :
            IF Get(a, k).t = "node" /\ Get(b, k).t = "node"
            THEN SameProperties(Get(a, k).n, Get(b, k).n)
            ELSE Get(a, k) = Get(b, k)

\* C15: a property tree without internal properties, written as a content
\* document and parsed back, is the same tree: keys, values, value types and
\* the nesting of children.
C15_XmlRoundTrip ==
    (call.op = "convertToJcrContentXML" /\ status = "parsed") =>
        SameProperties(returned, call.properties)

\* C15, its case: the string '1' is written as title="1", with no type in
\* front, and parsed back as the number 1.
C15_StringReadAsNumber ==
    /\ call.op = "convertToJcrContentXML" /\ status = "parsed"
    /\ Get(call.properties, <<"title">>) = CStr(<<"1">>)
    /\ Get(returned, <<"title">>) = CNum(FALSE, 1, 0)

\* fetchJcrNode has returned the data of the given mode
Fetched(mode) == call.op = "fetchJcrNode" /\ status = "done" /\ call.mode = mode

\* the entries of a tree that are properties, and those that are child nodes
ScalarEntries(tree) == {tree[i] : i \in {j \in 1..Len(tree) : tree[j].v.t # "node"}}

NodeEntries(tree) == {tree[i] : i \in {j \in 1..Len(tree) : tree[j].v.t = "node"}}

\* the children of the remote node are in the result, their children being
\* empty placeholders
ChildrenWithPlaceholders ==
    /\ {en.k : en \in NodeEntries(returned.n)} = {en.k : en \in NodeEntries(remote.n)}
    /\ \A en \in NodeEntries(returned.n) : \A g \in NodeEntries(en.v.n) : g.v.n = <<>>

\* C17 as stated: in mode Children the result holds the top-level properties of
\* the node together with its immediate children, and nothing of grandchildren.
C17_ScalarsWithChildren ==
    Fetched(FetchMode.Children) =>
        /\ ScalarEntries(remote.n) \subseteq ScalarEntries(returned.n)
        /\ ChildrenWithPlaceholders

\* C17 as the code has it: in mode Children the node is asked for at depth 1 and
\* the result holds its immediate children only, each with its own properties
\* and with empty placeholders for its children; the top-level properties of
\* the node are removed.
C17_ChildrenOnly ==
    Fetched(FetchMode.Children) =>
        /\ trace[1].form = <<Field("url", ".1.json")>>
        /\ ScalarEntries(returned.n) = {}
        /\ ChildrenWithPlaceholders
        /\ \A en \in NodeEntries(returned.n) :
                ScalarEntries(en.v.n) = ScalarEntries(Get(remote.n, en.k).n)

\* C17, its case: a node with a property and the children a and b, a with a
\* child of its own, fetched in mode Children.
C17_ChildrenFetched ==
    /\ Fetched(FetchMode.Children)
    /\ Has(remote.n, jcrPrimaryType)
    /\ ~Has(returned.n, jcrPrimaryType)
    /\ Keys(returned.n) = <<"a", "b">>
    /\ Get(Get(returned.n, "a").n, "title") = Str("a")
    /\ Get(Get(returned.n, "a").n, "g") = Obj(<<>>)

RECURSIVE NoScalars(_)
\* a tree of nodes without any property
NoScalars(tree) ==
    /\ ScalarEntries(tree) = {}
    /\ \A en \in NodeEntries(tree) : NoScalars(en.v.n)

\* C18 as stated: in mode RecursiveChildren, asked at depth 1 or more, only the
\* top-level properties are dropped; every child in the result keeps the
\* properties it has on the remote.
C18_DescendantScalarsKept ==
    (Fetched(FetchMode.RecursiveChildren) /\ call.depth >= 1) =>
        /\ ScalarEntries(returned.n) = {}
        /\ \A en \in NodeEntries(returned.n) :
                ScalarEntries(en.v.n) = ScalarEntries(Get(remote.n, en.k).n)

\* C18 as the code has it: in mode RecursiveChildren the result is the tree of
\* the nodes served, down to the depth asked for, without any property at any
\* level.
C18_NodesOnly ==
    Fetched(FetchMode.RecursiveChildren) =>
        /\ NoScalars(returned.n)
        /\ {en.k : en \in NodeEntries(returned.n)} = {en.k : en \in NodeEntries(remote.n)}
        /\ call.depth >= 1 =>
                \A en \in NodeEntries(returned.n) :
                    {g.k : g \in NodeEntries(en.v.n)}
                        = {g.k : g \in NodeEntries(Get(remote.n, en.k).n)}

\* C18, its case: the node with child a, which has a title and a child g,
\* fetched in mode RecursiveChildren at depth 1: a and g come back empty of
\* properties.
C18_TitleOfChildDropped ==
    /\ Fetched(FetchMode.RecursiveChildren)
    /\ call.depth = 1
    /\ Get(Get(remote.n, "a").n, "title") = Str("a")
    /\ returned = Obj(<<Entry("a", Obj(<<Entry("g", Obj(<<>>))>>))>>)

\* the requests fetch has sent, the 401 answers it has received, and the
\* requests for a credential it has made after a 401
HttpRequests == {i \in 1..Len(trace) : IsReq(trace[i], "http")}

Unauthorized == {i \in 1..Len(trace) : IsRes(trace[i], "http") /\ trace[i].result = "401"}

FailurePrompts == {i \in 1..Len(trace) : trace[i].kind = "onDidFailAuthentication"}

\* C19: within one call of fetch the request is sent at most twice and a
\* credential is asked for after a 401 at most once; the second request carries
\* x-retry, and a second 401 ends the call: the FetchError is thrown, nothing
\* is sent after it and no request for a credential is pending.
C19_RetriedAtMostOnce ==
    call.op = "fetch" =>
        /\ Cardinality(HttpRequests) <= 2
        /\ Cardinality(FailurePrompts) <= 1
        /\ \A i \in HttpRequests : HasField(trace[i].form, "x-retry") <=> i > 2
        /\ Cardinality(Unauthorized) >= 2 =>
                /\ Cardinality(Unauthorized) = 2
                /\ status = "failed" /\ thrown = "FetchError"
                /\ IsRes(trace[Len(trace)], "http") /\ trace[Len(trace)].result = "401"
                /\ ~client.pending

\* C19, its case: 401, a new credential given on request, the request sent
\* again with x-retry, 401 again, and the call has failed.
C19_SecondUnauthorizedSurfaced ==
    /\ call.op = "fetch" /\ status = "failed" /\ thrown = "FetchError"
    /\ Len(trace) = 5
    /\ IsReq(trace[1], "http") /\ trace[2] = HttpResponse(401)
    /\ trace[3].kind = "onDidFailAuthentication"
    /\ IsReq(trace[4], "http") /\ HasField(trace[4].form, "x-retry")
    /\ trace[5] = HttpResponse(401)

\* a delete was asked of the repository
DeleteRequested == \E i \in 1..Len(trace) : IsReq(trace[i], "delete")

\* C20: handleLocalChange asks the repository to delete a node only for a
\* deleted local file that is no .content.xml, with deleteRemoteFiles set, and
\* with the node at the remote path being an nt:file; under the default of the
\* setting, and for a deleted .content.xml, no delete is ever asked.
C20_DeleteOnlyWhenEnabled ==
    call.op = "handleLocalChange" =>
        /\ DeleteRequested =>
                /\ call.deleted
                /\ call.deleteRemoteFiles
                /\ BaseName(call.localPath) # ContentXml
                /\ remote0 = FileNode
        /\ call.deleteRemoteFiles = DefaultDeleteRemoteFiles => ~DeleteRequested
        /\ (call.deleted /\ BaseName(call.localPath) = ContentXml) => trace = <<>>

\* C20, its case: the file below jcr:content deleted locally with the setting
\* on and an nt:file on the host: the delete is asked at the remote path and the
\* node is gone.
C20_RemoteFileDeleted ==
    /\ call.op = "handleLocalChange" /\ status = "done"
    /\ call.deleted /\ call.deleteRemoteFiles
    /\ remote0 = FileNode /\ remote = Undefined
    /\ Len(trace) = 4
    /\ IsReq(trace[3], "delete")
    /\ trace[3].path = <<"/", "jcr", ":", "content", "/", "a.txt">>
    /\ messages = <<"sync: Deleting">>

-----------------------------------------------------------------------------
(* Properties of the levels of saveJcrProperties *)

\* the response this step receives
Received == trace'[Len(trace) + 1]

\* this step receives the answer to the fetch of a level, with a node or a 404
LevelFetched ==
    /\ Running
    /\ Top(stack).pc = "fetch"
    /\ Len(trace') > Len(trace)
    /\ IsRes(Received, "fetch") /\ Received.result \in {"ok", "404"}

\* the tree the level then compares with
CurrentDataOf(result, frame) ==
    IF result = "ok" THEN DepthZeroJson(NodeAt(remote, frame.path)) ELSE <<>>

\* the mutation of the level whose fetch this step answers
LevelMutation ==
    ComputeMutation(CurrentDataOf(Received.result, Top(stack)), Top(stack).properties,
                    Top(stack).order, call.options)

\* request i + 1 of tr is the write of form to path
WriteFollows(tr, i, path, form) ==
    /\ Len(tr) > i
    /\ IsReq(tr[i + 1], "post")
    /\ tr[i + 1].path = path
    /\ tr[i + 1].form = form

\* request i + 1 of tr is a write
AnyWriteFollows(tr, i) == Len(tr) > i /\ IsReq(tr[i + 1], "post")

\* no two write requests go to the same level
OneWritePerLevel(tr) ==
    \A i, j \in 1..Len(tr) :
        (IsReq(tr[i], "post") /\ IsReq(tr[j], "post") /\ tr[i].path = tr[j].path) => i = j

\* this step receives the answer to the write of a level, listing its changes
LevelWritten ==
    /\ Running
    /\ Top(stack).pc = "post"
    /\ Len(trace') > Len(trace)
    /\ IsRes(Received, "post") /\ Received.result = "ok"

\* C21: a level whose fetch is answered sends its write at once when the form
\* computed for it holds a field, and sends no write when it holds none; no
\* level is written twice; the changes listed by the answer to a write are
\* added to the changes of the call.
C21_OneWritePerLevel ==
    [][/\ (LevelFetched /\ ~LevelMutation.error) =>
            IF LevelMutation.form # <<>>
            THEN WriteFollows(trace', Len(trace) + 1, Top(stack).path, LevelMutation.form)
            ELSE ~AnyWriteFollows(trace', Len(trace) + 1)
       /\ Saving => OneWritePerLevel(trace')
       /\ LevelWritten =>
            changes' = changes + ServerChanges(remote, Top(stack).path, Top(stack).mut.form)
      ]_vars

\* C21, its case: the root level holds what is desired and is not written, the
\* child a has another title and is written once, and the change is recorded.
C21_ChildWrittenRootNot ==
    /\ Saving /\ status = "done"
    /\ RootFetched
    /\ ~RootPosted
    /\ Cardinality(PostsTo("a")) = 1
    /\ Cardinality({i \in 1..Len(trace) : IsReq(trace[i], "post")}) = 1
    /\ changes = 1

\* the properties a form deletes
DeletedBy(form) == {b \in BaseNames : HasField(form, b \o "@Delete")}

\* the writes sent so far
Writes == {i \in 1..Len(trace) : IsReq(trace[i], "post")}

\* C22: a write deletes a property only under deleteProps, only when the desired
\* tree of its level holds a primary type, and only a property that the fetched
\* node holds as a property and the desired tree lacks; a level whose desired
\* tree has no primary type deletes nothing.
C22_DeleteNeedsPrimaryType ==
    Saving =>
        \A i \in Writes :
            /\ DeletedBy(trace[i].form) # {} =>
                    /\ call.options.deleteProps
                    /\ Truthy(Get(trace[i].des, jcrPrimaryType))
            /\ \A b \in DeletedBy(trace[i].form) :
                    /\ Has(trace[i].cur, b) /\ ~isChildNode(trace[i].cur, b)
                    /\ ~Has(trace[i].des, b)
            /\ ~Has(trace[i].des, jcrPrimaryType) => DeletedBy(trace[i].form) = {}

\* C22, its case: deleteProps is set, the desired tree holds its primary type and
\* no tags, the remote node holds tags: the write deletes tags.
C22_TagsDeleted ==
    /\ Saving /\ status = "done"
    /\ call.options.deleteProps
    /\ Has(call.desired, jcrPrimaryType) /\ ~Has(call.desired, "tags")
    /\ remote0.t = "node" /\ Has(remote0.n, "tags")
    /\ RootPosted
    /\ DeletedBy(trace[3].form) = {"tags"}
    /\ ~Has(remote.n, "tags")

RECURSIVE DesiredAt(_, _)
\* the desired tree of the level at path, below the tree given to the call
DesiredAt(tree, path) ==
    IF path = <<>> THEN tree ELSE DesiredAt(Get(tree, Head(path)).n, Tail(path))

\* the level a path lies in
Parent(path) == SubSeq(path, 1, Len(path) - 1)

\* the delete requests sent so far for the node at path
DeletesOf(path) == {i \in 1..Len(trace) : IsReq(trace[i], "delete") /\ trace[i].path = path}

\* the levels fetched so far
Levels == {trace[i].path : i \in {j \in 1..Len(trace) : IsReq(trace[j], "fetch")}}

\* the child nodes that the remote holds at a level and the desired tree lacks
AbsentChildren(level) ==
    {c \in KeySet(Children(NodeAt(remote0, level))) :
        /\ isChildNode(NodeAt(remote0, level).n, c)
        /\ c \notin IgnoredNames
        /\ ~Has(DesiredAt(call.desired, level), c)}

\* C23: a delete request goes to a child only under deleteChildren, the child
\* being a node of its level on the remote and absent from the desired tree of
\* that level; no child is asked to be deleted twice; and when the call has
\* completed under deleteChildren, every such child of every level it went
\* through was asked to be deleted.
C23_AbsentChildrenDeleted ==
    Saving =>
        /\ \A i \in 1..Len(trace) :
            IsReq(trace[i], "delete") =>
                /\ call.options.deleteChildren
                /\ Parent(trace[i].path) \in Levels
                /\ trace[i].path[Len(trace[i].path)] \in AbsentChildren(Parent(trace[i].path))
                /\ Cardinality(DeletesOf(trace[i].path)) = 1
        /\ (status = "done" /\ call.options.deleteChildren) =>
                \A level \in Levels : \A c \in AbsentChildren(level) :
                    Cardinality(DeletesOf(Append(level, c))) = 1

\* C23, its case: the remote holds the children a and b, the desired tree names
\* a only, deleteChildren is set: one delete request, for b, and a stays.
C23_ChildBDeleted ==
    /\ Saving /\ status = "done"
    /\ call.options.deleteChildren
    /\ remote0.t = "node" /\ ChildKeys(remote0.n) = <<"a", "b">>
    /\ ChildKeys(call.desired) = <<"a">>
    /\ Cardinality({i \in 1..Len(trace) : IsReq(trace[i], "delete")}) = 1
    /\ Cardinality(DeletesOf(<<"b">>)) = 1
    /\ ChildKeys(remote.n) = <<"a">>

\* C24: no write, at any level, sets, patches, hints or deletes an internal
\* property or a property named in options.ignoreProps.
C24_IgnoredNeverWritten ==
    Saving => \A i \in Writes : FieldBases(trace[i].form) \cap IgnoredNames = {}

\* C24, its case: title is ignored; the child a differs from the remote in its
\* title, its note and its cq:lastModified; the write of the child carries the
\* note alone and the remote keeps its title and its cq:lastModified.
C24_ChildWrittenWithoutIgnored ==
    /\ Saving /\ status = "done"
    /\ call.options.ignoreProps = <<"title">>
    /\ remote0.t = "node"
    /\ Get(Get(call.desired, "a").n, "title") = Str("b")
    /\ Get(Get(call.desired, "a").n, "cq:lastModified") = Str("b")
    /\ \E i \in PostsTo("a") : FieldBases(trace[i].form) = {"note"}
    /\ Get(NodeAt(remote, <<"a">>).n, "title") = Str("a")
    /\ Get(NodeAt(remote, <<"a">>).n, "note") = Str("b")
    /\ Get(NodeAt(remote, <<"a">>).n, "cq:lastModified") = Str("a")

\* path a is path b or lies above it
IsPrefix(a, b) == Len(a) <= Len(b) /\ SubSeq(b, 1, Len(a)) = a

\* the place of a name in a list of names, 0 when it is not in it
PlaceOf(name, names) ==
    IF \E i \in 1..Len(names) : names[i] = name
    THEN CHOOSE i \in 1..Len(names) : names[i] = name
    ELSE 0

\* the request at k was answered, with success, before the event at j
AnsweredBefore(k, j) ==
    \E m \in (k + 1)..(j - 1) :
        /\ IsRes(trace[m], trace[k].kind)
        /\ trace[m].path = trace[k].path
        /\ trace[m].result \in {"ok", "404"}

\* requests i and j fetch two children of one level, i first
SiblingFetches(i, j) ==
    /\ i < j
    /\ IsReq(trace[i], "fetch") /\ IsReq(trace[j], "fetch")
    /\ Len(trace[i].path) >= 1 /\ Len(trace[j].path) = Len(trace[i].path)
    /\ Parent(trace[i].path) = Parent(trace[j].path)

\* C25: of two children of one level the first fetched stands first among the
\* child keys of the desired tree, and when the second is fetched every request
\* for the first child and for the nodes below it has been answered, none
\* being sent later.
C25_ChildrenOneAfterTheOther ==
    Saving =>
        \A i, j \in 1..Len(trace) :
            SiblingFetches(i, j) =>
                /\ trace[i].path # trace[j].path
                /\ 0 < PlaceOf(trace[i].path[Len(trace[i].path)],
                               ChildKeys(DesiredAt(call.desired, Parent(trace[i].path))))
                /\ PlaceOf(trace[i].path[Len(trace[i].path)],
                           ChildKeys(DesiredAt(call.desired, Parent(trace[i].path))))
                     < PlaceOf(trace[j].path[Len(trace[j].path)],
                               ChildKeys(DesiredAt(call.desired, Parent(trace[i].path))))
                /\ \A k \in 1..Len(trace) :
                    IsPrefix(trace[i].path, trace[k].path) =>
                        /\ k < j
                        /\ trace[k].dir = "req" => AnsweredBefore(k, j)

\* C25, its case: the desired children are a then b, a with a grandchild g that
\* the remote lacks: a is fetched, g below it is fetched and written, and only
\* then b is fetched.
C25_GrandChildBeforeSibling ==
    /\ Saving /\ status = "done"
    /\ \E i, k, j \in 1..Len(trace) :
        /\ i < k /\ k < j
        /\ IsReq(trace[i], "fetch") /\ trace[i].path = <<"a">>
        /\ IsRes(trace[k], "post") /\ trace[k].path = <<"a", "g">> /\ trace[k].result = "ok"
        /\ IsReq(trace[j], "fetch") /\ trace[j].path = <<"b">>

\* the child keys of the desired tree of a level
DesiredChildKeys(level) == ChildKeys(DesiredAt(call.desired, level))

\* the children the remote holds at a level that the desired tree names too,
\* in their order on the remote
CommonChildren(level) ==
    SelectSeq(ChildKeys(Children(NodeAt(remote0, level))),
              LAMBDA v : PlaceOf(v, DesiredChildKeys(level)) > 0)

\* some child held by both stands at another place than in the desired tree
ReorderRequired(level) ==
    \E i \in 1..Len(CommonChildren(level)) :
        CommonChildren(level)[i] # DesiredChildKeys(level)[i]

\* the writes sent so far to the node at path
WritesTo(path) == {i \in Writes : trace[i].path = path}

ExternalField == trace[CHOOSE i \in 1..Len(trace) : trace[i].dir = "ext"].form[1].name

\* C27: another client has changed a property of the node between the fetch
\* and the write of the call. When the call has completed, a property whose
\* desired value is the fetched one holds the value of the other client, a
\* property whose desired value differs from the fetched one holds the desired
\* value, and the call has resolved like any other: no error, no further
\* request, the one line of a successful update.
C27_LastWriteWinsPerField ==
    (Saving /\ Overwritten /\ status = "done") =>
        /\ IF Get(call.desired, ExternalField) = Get(remote0.n, ExternalField)
           THEN Get(remote.n, ExternalField) = ExternalValue
           ELSE Get(remote.n, ExternalField) = Get(call.desired, ExternalField)
        /\ thrown = ""
        /\ messages = <<"repo: Updated">>
        /\ Cardinality(Requests) = 2

\* C27, first case: the call changes the title; the other client changes the
\* note in between; the remote ends with the title of the call and the note of
\* the other client.
C27_ExternalNoteSurvives ==
    /\ Saving /\ Overwritten /\ status = "done"
    /\ ExternalField = "note"
    /\ Get(call.desired, "title") = Str("b") /\ Get(call.desired, "note") = Str("a")
    /\ Get(remote.n, "title") = Str("b")
    /\ Get(remote.n, "note") = ExternalValue

\* the delete requests sent so far for children of a level
DeletesBelow(level) ==
    {i \in 1..Len(trace) :
        IsReq(trace[i], "delete") /\ trace[i].path # <<>> /\ Parent(trace[i].path) = level}

\* the fetches sent so far for children of a level
FetchesBelow(level) ==
    {i \in 1..Len(trace) :
        IsReq(trace[i], "fetch") /\ trace[i].path # <<>> /\ Parent(trace[i].path) = level}

\* C28: at every level, a delete request for a child is sent after the write of
\* the level, if there is one, has been answered; between two delete requests
\* of one level nothing but delete requests of that level is sent or received;
\* and a child tree of the level is fetched only after every delete request of
\* the level has been answered with success.
C28_PhasesOfALevel ==
    Saving =>
        \A level \in Levels :
            /\ \A d \in DeletesBelow(level) :
                /\ \A w \in WritesTo(level) : w < d /\ AnsweredBefore(w, d)
                /\ \A e \in DeletesBelow(level) : \A k \in d..e : k \in DeletesBelow(level)
                /\ \A f \in FetchesBelow(level) : d < f /\ AnsweredBefore(d, f)

\* C28, its case: jcrPath is written, its children a and b are deleted and its
\* child c is created: the write is answered, then both deletes are sent, then
\* both are answered, then c is fetched.
C28_WriteDeletesThenChild ==
    /\ Saving /\ status = "done"
    /\ RootPosted
    /\ Cardinality(DeletesBelow(<<>>)) = 2
    /\ \E d \in DeletesBelow(<<>>) : d + 1 \in DeletesBelow(<<>>) /\ IsRes(trace[d - 1], "post")
    /\ \E f \in FetchesBelow(<<>>) : trace[f].path = <<"c">> /\ IsRes(trace[f - 1], "delete")
    /\ ChildKeys(remote.n) = <<"c">>

\* serializeJcrValue has returned the text of a scalar whose formatted text
\* starts with '[' or '{'
HeadEscaped ==
    /\ call.op = "serializeJcrValue" /\ status = "serialized"
    /\ call.value.t # "array"
    /\ formatJcrText(call.value) # <<>>
    /\ formatJcrText(call.value)[1] \in {"[", "{"}

\* C29: the text serializeJcrValue returns for a scalar whose formatted text
\* starts with '[' or '{' is that text with one backslash put in front of it,
\* every character kept.
C29_HeadEscapedByBackslash ==
    HeadEscaped => returned = <<"\\">> \o formatJcrText(call.value)

\* C29, the run that refutes it: for the string '{a' serializeJcrValue returns
\* '\$1a': the '{' is gone and the three characters \$1 stand in its place.
C29_BraceReplaced ==
    /\ HeadEscaped
    /\ call.value = CStr(<<"{", "a">>)
    /\ returned = <<"\\", "$", "1", "a">>

-----------------------------------------------------------------------------
(* Properties of the requests for a credential *)

\* the events fired so far to ask for a credential
Prompts(tr) ==
    {i \in 1..Len(tr) :
        tr[i].kind \in {"onDidRequestAuthentication", "onDidFailAuthentication"}}

\* the answers given so far: setCredential and cancel
Settlements(tr) == {i \in 1..Len(tr) : tr[i].kind \in {"setCredential", "cancel"}}

\* between two events that ask for a credential the earlier one was answered
OnePromptAtATime(tr) ==
    \A i, j \in Prompts(tr) : i < j => \E k \in Settlements(tr) : i < k /\ k < j

\* a request is pending exactly while some fetch waits, and it is the one the
\* last event asked with
PendingWhileWaited(stk, cl, tr) ==
    /\ cl.pending <=> \E i \in 1..Len(stk) : Waiting(stk[i])
    /\ cl.pending <=>
        /\ Prompts(tr) # {}
        /\ \A k \in Settlements(tr) : \E i \in Prompts(tr) : k < i

\* this step is a call of setCredential
CredentialSet ==
    /\ Len(trace') > Len(trace)
    /\ trace'[Len(trace) + 1].kind = "setCredential"

\* the header this step stores for the host
HeaderSet == trace'[Len(trace) + 1].form[1].value

\* the requests this step sends
SentNow == SubSeq(trace', Len(trace) + 2, Len(trace'))

\* C30: with any number of fetches of one host under way, an event asking for a
\* credential is fired only when none is pending, so that two such events are
\* always separated by an answer; a request is pending exactly while some
\* fetch waits for it; and a call of setCredential stores the header, removes
\* the pending request and lets every waiting fetch send its request with that
\* header, nothing else being sent.
C30_OneRequestPerHost ==
    [][call.op = "fetches" =>
        /\ OnePromptAtATime(trace')
        /\ PendingWhileWaited(stack', client', trace')
        /\ CredentialSet =>
            /\ client' = [authHeaders |-> HeaderSet, pending |-> FALSE]
            /\ \A i \in 1..Len(stack) :
                IF Waiting(stack[i])
                THEN stack'[i].pc = "response" /\ stack'[i].header = HeaderSet
                ELSE stack'[i] = stack[i]
            /\ Len(SentNow) = Len(SelectSeq(stack, Waiting))
            /\ \A j \in 1..Len(SentNow) :
                /\ IsReq(SentNow[j], "http")
                /\ FieldValues(SentNow[j].form, "authorization") = <<HeaderSet>>
      ]_vars

\* C30, its case: two fetches of a host without credential: one event asks for
\* the credential, setCredential answers it, both requests go out with the new
\* header and both fetches resolve.
C30_TwoFetchesOnePrompt ==
    /\ call.op = "fetches" /\ status = "done"
    /\ call.count = 2
    /\ Len(trace) = 6
    /\ trace[1].kind = "onDidRequestAuthentication"
    /\ trace[2] = CredentialEvent("setCredential", "Bearer token")
    /\ trace[3] = HttpRequest("Bearer token", FALSE)
    /\ trace[4] = HttpRequest("Bearer token", FALSE)
    /\ trace[5] = HttpResponse(200) /\ trace[6] = HttpResponse(200)
    /\ \A i \in 1..2 : stack[i].pc = "done"
    /\ ~client.pending
====
